---- MODULE Spec2Model ----
(***************************************************************************)
(* Movie Search App (mohammed-albazoon/movie-search-app).                  *)
(*                                                                         *)
(* The single React component App: the weather-to-genre mapping, the       *)
(* paginated OMDB fetch loop, the suggestion loader run at mount, the      *)
(* search controller with its history stack, and the hover preview with    *)
(* its two timers and the trailer lookup.                                  *)
(*                                                                         *)
(* The component is modelled as the current version of App.tsx (the one    *)
(* with searchHistory, hasSearched and the genre dropdown, which is what   *)
(* App.test.tsx exercises).  One action is one run-to-completion task of   *)
(* the browser event loop: a DOM event handler, a timer callback, or the   *)
(* continuation of an await when a response arrives, together with the     *)
(* render and the effects that React flushes before the next task.         *)
(*                                                                         *)
(* Texts are sequences of tokens (a token is one character or one whole    *)
(* word), so that String.prototype.trim is computed and not assumed.       *)
(***************************************************************************)
EXTENDS Integers, Sequences, FiniteSets, TLC

VARIABLES
    \* ---- React state of the search controller
    query,            \* text of the search field
    searchedQuery,    \* the query that was actually searched
    movies,           \* displayed search results
    suggested,        \* suggestion list
    hasSearched,
    isSearching,
    searchHistory,    \* stack of [query, movies]
    selectedGenre,    \* "" is the "All Genres" option
    weatherReason,
    \* ---- asynchronous work of the search controller and the loader
    fetches,          \* invocations of the pagination loop awaiting a response
    loader,           \* position of the mount effect (suggestion loader)
    topRated,         \* the fetchTopRatedMovies invocation, when one is running
    TMDB_API_KEY,     \* whether import.meta.env.VITE_TMDB_API_KEY is set
    \* ---- preview controller
    hoveredMovie,
    previewMode,
    previewPosition,
    hoverTimeoutRef,
    closeTimeoutRef,
    timers,           \* the browser's table of live timeouts
    trailer,
    trailerCache,
    lookups,          \* fetchTrailerFromTMDB invocations awaiting a response
    pointer,          \* the element the mouse pointer is in
    \* ---- values used only by the pure-function specifications
    fnIn,
    fnOut,
    \* ---- history variable: the task that ran last
    lastEvent

searchVars  == <<query, searchedQuery, movies, hasSearched, isSearching,
                 searchHistory, selectedGenre>>
loaderVars  == <<suggested, weatherReason, loader, topRated, TMDB_API_KEY>>
previewVars == <<hoveredMovie, previewMode, previewPosition, hoverTimeoutRef,
                 closeTimeoutRef, timers, trailer, trailerCache, lookups>>
fnVars      == <<fnIn, fnOut>>
vars == <<searchVars, loaderVars, fetches, previewVars, pointer, fnVars, lastEvent>>

-----------------------------------------------------------------------------
(* Program constants *)

GENRES == {"adventure", "mystery", "romance", "fantasy", "action", "family", "drama"}

\* the page ceiling of the pagination loop: if (page > 10) break
MaxPages == 10

\* the number of pages fetchTopRatedMovies reads: page <= 3
TopRatedPages == 3

-----------------------------------------------------------------------------
(* Bounds of the model *)

\* length of the Search array of a page that is not empty
MaxPageLen == 2
\* pagination-loop invocations that may be awaiting a response together
MaxInFlight == 1
\* deepest history stack explored
MaxHistory == 2
\* deepest history stack explored where Back from an empty stack is at stake
MaxBackHistory == 0
\* longest results array of one top-rated page
MaxTopRatedLen == 1
\* trailer lookups that may be awaiting a response together
MaxLookups == 1
\* weather codes -BelowZero..MaxCode and temperatures -BelowZero..MaxTemp (degrees
\* Celsius, whole degrees) are the inputs of the Genre Mapper
MaxCode == 100
MaxTemp == 40
BelowZero == 10

-----------------------------------------------------------------------------
(* Values *)

Range(s) == {s[i] : i \in 1..Len(s)}

\* a movie is identified by the query and page that returned it and its
\* position in that page; the record stands for the imdbID
Movie(q, p, i) == [q |-> q, p |-> p, i |-> i]
NoMovie == [q |-> <<>>, p |-> 0, i |-> 0]

\* one text per genre keyword
Word(w) == <<w>>

\* String.prototype.trim on token sequences
RECURSIVE TrimStart(_)
TrimStart(t) == IF t # <<>> /\ Head(t) = " " THEN TrimStart(Tail(t)) ELSE t
RECURSIVE TrimEnd(_)
TrimEnd(t) == IF t # <<>> /\ t[Len(t)] = " " THEN TrimEnd(SubSeq(t, 1, Len(t) - 1)) ELSE t
\* (variant: the text taken as typed, as in: if (!query) return)
trimNothing(t) == t
trim(t) == TrimEnd(TrimStart(t))

\* what the user may type in the search field
QueryInputs == { <<" ">>, <<"a">>, <<" ", "b", " ">> }

-----------------------------------------------------------------------------
(* Genre Mapper *)

\* (variant: the temperature tests placed before the code ranges)
getGenreTemperatureFirst(code, temp) ==
    IF temp >= 30 THEN "action"
    ELSE IF temp <= 5 THEN "family"
    ELSE IF code >= 0 /\ code <= 3 THEN "adventure"
    ELSE IF code >= 45 /\ code <= 48 THEN "mystery"
    ELSE IF code >= 51 /\ code <= 67 THEN "romance"
    ELSE IF code >= 71 /\ code <= 77 THEN "fantasy"
    ELSE "drama"

getGenreForWeather(code, temp) ==
    IF code >= 0 /\ code <= 3 THEN "adventure"
    ELSE IF code >= 45 /\ code <= 48 THEN "mystery"
    ELSE IF code >= 51 /\ code <= 67 THEN "romance"
    ELSE IF code >= 71 /\ code <= 77 THEN "fantasy"
    ELSE IF temp >= 30 THEN "action"
    ELSE IF temp <= 5 THEN "family"
    ELSE "drama"

\* (variant: the temperature tests placed before the code ranges)
getWeatherDescriptionTemperatureFirst(code, temp) ==
    IF temp >= 30 THEN "it's hot outside"
    ELSE IF temp <= 5 THEN "it's freezing cold"
    ELSE IF code >= 71 /\ code <= 77 THEN "it's snowing"
    ELSE IF code >= 51 /\ code <= 67 THEN "it's raining"
    ELSE IF code >= 45 /\ code <= 48 THEN "it's foggy"
    ELSE IF code >= 0 /\ code <= 3 THEN "it's clear and sunny"
    ELSE "the weather is mild"

\* the reason shown after "Suggested for you because" (without its emoji)
getWeatherDescription(code, temp) ==
    IF code >= 71 /\ code <= 77 THEN "it's snowing"
    ELSE IF code >= 51 /\ code <= 67 THEN "it's raining"
    ELSE IF code >= 45 /\ code <= 48 THEN "it's foggy"
    ELSE IF code >= 0 /\ code <= 3 THEN "it's clear and sunny"
    ELSE IF temp >= 30 THEN "it's hot outside"
    ELSE IF temp <= 5 THEN "it's freezing cold"
    ELSE "the weather is mild"

TopRatedReason == "they're top rated"

-----------------------------------------------------------------------------
(* Paginated Fetcher: one invocation of the loop                           *)
(*   let allMovies = []; let page = 1;                                     *)
(*   while (true) { data = await (await fetch(..page)).json();             *)
(*                  if (!data.Search) break;                               *)
(*                  allMovies = [...allMovies, ...data.Search]; page++;    *)
(*                  if (page > 10) break; }                                *)
(* fetchAllMoviesByGenre and the body of handleSearch hold the same loop.  *)
(* An invocation is suspended at the await between two tasks; `issued'     *)
(* counts the requests it has sent and `log' keeps the responses it got.   *)

NoFetch == [kind |-> "none", q |-> <<>>, page |-> 0, allMovies |-> <<>>,
            issued |-> 0, log |-> <<>>]

\* the state of the loop when it reaches its first await: page 1 requested
StartLoop(kind, q) == [kind |-> kind, q |-> q, page |-> 1, allMovies |-> <<>>,
                       issued |-> 1, log |-> <<>>]

\* a parsed response body: has = data.Search is truthy
Absent == [has |-> FALSE, Search |-> <<>>]
Page(q, p, n) == [has |-> TRUE, Search |-> [i \in 1..n |-> Movie(q, p, i)]]

\* the bodies the provider may answer a request of invocation f with, when it
\* has data for the pages 1..depth and its Search arrays have a length in lens
\* (an empty Search array is truthy)
Responses(f, depth, lens) ==
    {Absent} \cup (IF f.page <= depth
                   THEN {Page(f.q, f.page, n) : n \in lens}
                   ELSE {})

\* (variant: the new page put in front of the accumulated list)
LoopBodyPrepend(f, data) ==
    IF ~data.has
    THEN [f EXCEPT !.log = Append(@, data)]
    ELSE [f EXCEPT !.allMovies = data.Search \o @,
                   !.page = @ + 1,
                   !.log = Append(@, data)]

\* the loop body from the resumption of the await to the next await or break:
\* the locals after it
LoopBody(f, data) ==
    IF ~data.has
    THEN [f EXCEPT !.log = Append(@, data)]
    ELSE [f EXCEPT !.allMovies = @ \o data.Search,
                   !.page = @ + 1,
                   !.log = Append(@, data)]

\* (variant: the ceiling tested one page late)
LoopBreaksLate(f, data) == ~data.has \/ LoopBody(f, data).page > MaxPages + 1
\* (variant: the loop without a ceiling)
LoopBreaksOnMissingOnly(f, data) == ~data.has
\* whether that pass leaves the loop
LoopBreaks(f, data) == ~data.has \/ LoopBody(f, data).page > MaxPages

\* (variant: two requests sent per pass)
LoopNextTwo(f, data) == [LoopBody(f, data) EXCEPT !.issued = @ + 2]
\* the next request goes out when the pass does not break
LoopNext(f, data) == [LoopBody(f, data) EXCEPT !.issued = @ + 1]

RemoveAt(s, i) == SubSeq(s, 1, i - 1) \o SubSeq(s, i + 1, Len(s))

-----------------------------------------------------------------------------
(* What is rendered *)

\* which of the two movies-grid blocks is rendered
GridOf(mv, hs, sg) ==
    IF Len(mv) > 0 THEN "results"
    ELSE IF ~hs /\ Len(sg) > 0 THEN "suggested"
    ELSE "none"

CardsOf(mv, hs, sg) ==
    IF Len(mv) > 0 THEN mv
    ELSE IF ~hs /\ Len(sg) > 0 THEN sg
    ELSE <<>>

DisplayedGrid == GridOf(movies, hasSearched, suggested)
DisplayedCards == CardsOf(movies, hasSearched, suggested)

\* {hasSearched && !isSearching && movies.length === 0 && <div className="no-results">}
ShowNoResults == hasSearched /\ ~isSearching /\ Len(movies) = 0
\* {!hasSearched && movies.length === 0 && suggested.length > 0 && <>Suggested for you ...</>}
ShowSuggestions == ~hasSearched /\ Len(movies) = 0 /\ Len(suggested) > 0
\* {hasSearched && <button className="back-btn">}
ShowBack == hasSearched

\* The pointer is in a card or in the preview panel only as long as that
\* element is mounted: an element removed by a render gets no mouseleave.
NoPointer == [on |-> "none", m |-> NoMovie]
PointerAfter(mv, hs, sg, hm) ==
    IF pointer.on = "card"
    THEN IF GridOf(mv, hs, sg) = DisplayedGrid /\ pointer.m \in Range(CardsOf(mv, hs, sg))
         THEN pointer ELSE NoPointer
    ELSE IF pointer.on = "panel" /\ hm = NoMovie THEN NoPointer
    ELSE pointer

Event(type) == [type |-> type, f |-> NoFetch, m |-> NoMovie]
FetchEvent(type, f) == [type |-> type, f |-> f, m |-> NoMovie]
MovieEvent(type, m) == [type |-> type, f |-> NoFetch, m |-> m]

-----------------------------------------------------------------------------
(* Initial state: the component has mounted, the mount effect has called   *)
(* navigator.geolocation.getCurrentPosition and neither callback has run.  *)

NoTopRated == [page |-> 0, stage |-> "none", rest |-> <<>>, movies |-> <<>>]
\* the null of string | null
NullKey == "null"
NoTrailer == [youtubeKey |-> NullKey, loading |-> FALSE, error |-> FALSE]
\* new Map(): no id has an entry
EmptyCache == [m \in {} |-> NullKey]

InitApp ==
    /\ query = <<>>
    /\ searchedQuery = <<>>
    /\ movies = <<>>
    /\ suggested = <<>>
    /\ hasSearched = FALSE
    /\ isSearching = FALSE
    /\ searchHistory = <<>>
    /\ selectedGenre = ""
    /\ weatherReason = ""
    /\ fetches = <<>>
    /\ loader = "locating"
    /\ topRated = NoTopRated
    /\ TMDB_API_KEY \in BOOLEAN
    /\ hoveredMovie = NoMovie
    /\ previewMode = "expand"
    /\ previewPosition = [top |-> 0, left |-> 0]
    /\ hoverTimeoutRef = 0
    /\ closeTimeoutRef = 0
    /\ timers = {}
    /\ trailer = NoTrailer
    /\ trailerCache = EmptyCache
    /\ lookups = <<>>
    /\ pointer = NoPointer
    /\ lastEvent = Event("mount")

Init ==
    /\ InitApp
    /\ fnIn = <<>>
    /\ fnOut = <<>>

\* the build without VITE_TMDB_API_KEY, as in the tests
InitNoKey == Init /\ ~TMDB_API_KEY

-----------------------------------------------------------------------------
(* Suggestion Loader: the mount effect                                     *)

\* (variant: the keyword of the earlier version, fetchAllMoviesByGenre("popular"))
BeginTopRatedPopular(fs) ==
    IF TMDB_API_KEY
    THEN /\ topRated' = [page |-> 1, stage |-> "list", rest |-> <<>>, movies |-> <<>>]
         /\ loader' = "toprated"
         /\ fetches' = fs
    ELSE /\ topRated' = NoTopRated
         /\ loader' = "fallback"
         /\ fetches' = Append(fs, StartLoop("fallback", Word("popular")))

\* fetchTopRatedMovies() up to its first await, called with the pagination
\* invocations fs awaiting a response
BeginTopRated(fs) ==
    IF TMDB_API_KEY
    THEN /\ topRated' = [page |-> 1, stage |-> "list", rest |-> <<>>, movies |-> <<>>]
         /\ loader' = "toprated"
         /\ fetches' = fs
    ELSE /\ topRated' = NoTopRated
         /\ loader' = "fallback"
         /\ fetches' = Append(fs, StartLoop("fallback", Word("movie")))

\* success callback up to the await of the weather request
GeoSuccess ==
    /\ loader = "locating"
    /\ loader' = "weather"
    /\ lastEvent' = Event("GeoSuccess")
    /\ UNCHANGED <<searchVars, suggested, weatherReason, topRated, TMDB_API_KEY,
                   fetches, previewVars, pointer, fnVars>>

\* error callback up to the await in fetchTopRatedMovies
GeoError ==
    /\ loader = "locating"
    /\ weatherReason' = TopRatedReason
    /\ BeginTopRated(fetches)
    /\ lastEvent' = Event("GeoError")
    /\ UNCHANGED <<searchVars, suggested, TMDB_API_KEY, previewVars, pointer, fnVars>>

\* (variant: the two arguments of the mapping exchanged)
WeatherResolvedSwapped(code, temp) ==
    /\ loader = "weather"
    /\ fnIn' = <<code, temp>>
    /\ fnOut' = <<getGenreForWeather(temp, code)>>
    /\ weatherReason' = getWeatherDescription(code, temp)
    /\ fetches' = Append(fetches, StartLoop("suggest", Word(getGenreForWeather(temp, code))))
    /\ loader' = "genre"
    /\ lastEvent' = Event("WeatherResolved")
    /\ UNCHANGED <<searchVars, suggested, topRated, TMDB_API_KEY, previewVars, pointer>>

\* the weather response arrived and parsed: the try block up to the await in
\* fetchAllMoviesByGenre(genre)
WeatherResolved(code, temp) ==
    /\ loader = "weather"
    /\ fnIn' = <<code, temp>>
    /\ fnOut' = <<getGenreForWeather(code, temp)>>
    /\ weatherReason' = getWeatherDescription(code, temp)
    /\ fetches' = Append(fetches, StartLoop("suggest", Word(getGenreForWeather(code, temp))))
    /\ loader' = "genre"
    /\ lastEvent' = Event("WeatherResolved")
    /\ UNCHANGED <<searchVars, suggested, topRated, TMDB_API_KEY, previewVars, pointer>>

\* the weather request rejected, its body did not parse, or current_weather is
\* missing: the catch block up to the await in fetchTopRatedMovies
WeatherFailed ==
    /\ loader = "weather"
    /\ weatherReason' = TopRatedReason
    /\ BeginTopRated(fetches)
    /\ lastEvent' = Event("WeatherFailed")
    /\ UNCHANGED <<searchVars, suggested, TMDB_API_KEY, previewVars, pointer, fnVars>>

\* setSuggested(list) and the render after it
SetSuggested(list) ==
    /\ suggested' = list
    /\ loader' = "done"
    /\ pointer' = PointerAfter(movies, hasSearched, list, hoveredMovie)

\* the two for loops of fetchTopRatedMovies (with a key), from the point where
\* the results t.rest of page t.page are still to be looked up, to the next await
TopRatedAfter(t) ==
    IF t.rest # <<>> THEN [t EXCEPT !.stage = "detail"]
    ELSE IF t.page < TopRatedPages THEN [t EXCEPT !.page = @ + 1, !.stage = "list"]
    ELSE [t EXCEPT !.stage = "return"]

TopRatedStep(t) ==
    IF TopRatedAfter(t).stage = "return"
    THEN /\ SetSuggested(t.movies)
         /\ topRated' = NoTopRated
    ELSE /\ topRated' = TopRatedAfter(t)
         /\ UNCHANGED <<suggested, loader, pointer>>

\* n = number of entries of data.results, -1 when the field is missing
TopRatedList(n) ==
    /\ topRated.stage = "list"
    /\ TopRatedStep([topRated EXCEPT !.rest =
           IF n < 0 THEN <<>> ELSE [i \in 1..n |-> Movie(Word("top_rated"), topRated.page, i)]])
    /\ lastEvent' = Event("TopRatedList")
    /\ UNCHANGED <<searchVars, weatherReason, TMDB_API_KEY, fetches, previewVars, fnVars>>

\* the external_ids response of the first pending result
TopRatedDetail(hasImdbId) ==
    /\ topRated.stage = "detail"
    /\ TopRatedStep([topRated EXCEPT
           !.rest = Tail(@),
           !.movies = IF hasImdbId THEN Append(@, Head(topRated.rest)) ELSE @])
    /\ lastEvent' = Event("TopRatedDetail")
    /\ UNCHANGED <<searchVars, weatherReason, TMDB_API_KEY, fetches, previewVars, fnVars>>

\* any request of fetchTopRatedMovies rejects: catch, fetchAllMoviesByGenre("movie")
TopRatedFailed ==
    /\ topRated.stage \in {"list", "detail"}
    /\ topRated' = NoTopRated
    /\ loader' = "fallback"
    /\ fetches' = Append(fetches, StartLoop("fallback", Word("movie")))
    /\ lastEvent' = Event("TopRatedFailed")
    /\ UNCHANGED <<searchVars, suggested, weatherReason, TMDB_API_KEY, previewVars,
                   pointer, fnVars>>

-----------------------------------------------------------------------------
(* Search Controller *)

\* onChange of the search field
setQuery(text) ==
    /\ query' = text
    /\ lastEvent' = Event("setQuery")
    /\ UNCHANGED <<searchedQuery, movies, hasSearched, isSearching, searchHistory,
                   selectedGenre, loaderVars, fetches, previewVars, pointer, fnVars>>

\* (variant: the current pair is pushed on every submit)
handleSearchAlwaysPush ==
    LET trimmedQuery == trim(query) IN
    /\ lastEvent' = Event("handleSearch")
    /\ IF trimmedQuery = <<>>
       THEN UNCHANGED <<searchVars, loaderVars, fetches, previewVars, pointer, fnVars>>
       ELSE /\ searchHistory' =
                   Append(searchHistory, [query |-> searchedQuery, movies |-> movies])
            /\ movies' = <<>>
            /\ searchedQuery' = trimmedQuery
            /\ hasSearched' = TRUE
            /\ isSearching' = TRUE
            /\ selectedGenre' = ""
            /\ fetches' = Append(fetches, StartLoop("search", trimmedQuery))
            /\ pointer' = PointerAfter(<<>>, TRUE, suggested, hoveredMovie)
            /\ UNCHANGED <<query, loaderVars, previewVars, fnVars>>

\* Search button click, or Enter in the search field: the handler up to its
\* first await (the request of page 1 is sent before the handler suspends)
handleSearch ==
    LET trimmedQuery == trim(query) IN
    /\ lastEvent' = Event("handleSearch")
    /\ IF trimmedQuery = <<>>
       THEN UNCHANGED <<searchVars, loaderVars, fetches, previewVars, pointer, fnVars>>
       ELSE /\ searchHistory' =
                   IF hasSearched /\ searchedQuery # <<>>
                   THEN Append(searchHistory, [query |-> searchedQuery, movies |-> movies])
                   ELSE searchHistory
            /\ movies' = <<>>
            /\ searchedQuery' = trimmedQuery
            /\ hasSearched' = TRUE
            /\ isSearching' = TRUE
            /\ selectedGenre' = ""
            /\ fetches' = Append(fetches, StartLoop("search", trimmedQuery))
            /\ pointer' = PointerAfter(<<>>, TRUE, suggested, hoveredMovie)
            /\ UNCHANGED <<query, loaderVars, previewVars, fnVars>>

\* onChange of the genre dropdown; genre = "" is "All Genres"
handleGenreSelect(genre) ==
    /\ genre # selectedGenre          \* a select fires onChange only for another option
    /\ selectedGenre' = genre
    /\ lastEvent' = Event("handleGenreSelect")
    /\ IF genre = ""
       THEN /\ movies' = <<>>
            /\ hasSearched' = FALSE
            /\ query' = <<>>
            /\ searchedQuery' = <<>>
            /\ pointer' = PointerAfter(<<>>, FALSE, suggested, hoveredMovie)
            /\ UNCHANGED <<isSearching, searchHistory, fetches>>
       ELSE /\ isSearching' = TRUE
            /\ hasSearched' = TRUE
            /\ searchedQuery' = Word(genre)
            /\ movies' = <<>>
            /\ fetches' = Append(fetches, StartLoop("genre", Word(genre)))
            /\ pointer' = PointerAfter(<<>>, TRUE, suggested, hoveredMovie)
            /\ UNCHANGED <<query, searchHistory>>
    /\ UNCHANGED <<loaderVars, previewVars, fnVars>>

\* (variant: the oldest entry taken instead of the newest, and the field and
\* the genre left as they are when the stack is empty)
handleBackOldest ==
    /\ ShowBack
    /\ lastEvent' = Event("handleBack")
    /\ IF Len(searchHistory) > 0
       THEN LET previousSearch == searchHistory[1] IN
            /\ searchHistory' = Tail(searchHistory)
            /\ movies' = previousSearch.movies
            /\ searchedQuery' = previousSearch.query
            /\ query' = previousSearch.query
            /\ pointer' = PointerAfter(previousSearch.movies, hasSearched, suggested, hoveredMovie)
            /\ UNCHANGED <<hasSearched, selectedGenre>>
       ELSE /\ movies' = <<>>
            /\ searchedQuery' = <<>>
            /\ hasSearched' = FALSE
            /\ pointer' = PointerAfter(<<>>, FALSE, suggested, hoveredMovie)
            /\ UNCHANGED <<searchHistory, query, selectedGenre>>
    /\ UNCHANGED <<isSearching, loaderVars, fetches, previewVars, fnVars>>

\* (variant: Back to the initial view starts the loader again)
handleBackReloads ==
    /\ ShowBack
    /\ lastEvent' = Event("handleBack")
    /\ IF Len(searchHistory) > 0
       THEN LET previousSearch == searchHistory[Len(searchHistory)] IN
            /\ searchHistory' = SubSeq(searchHistory, 1, Len(searchHistory) - 1)
            /\ movies' = previousSearch.movies
            /\ searchedQuery' = previousSearch.query
            /\ query' = previousSearch.query
            /\ pointer' = PointerAfter(previousSearch.movies, hasSearched, suggested, hoveredMovie)
            /\ UNCHANGED <<hasSearched, selectedGenre, loader>>
       ELSE /\ movies' = <<>>
            /\ query' = <<>>
            /\ searchedQuery' = <<>>
            /\ hasSearched' = FALSE
            /\ selectedGenre' = ""
            /\ loader' = "locating"
            /\ pointer' = PointerAfter(<<>>, FALSE, suggested, hoveredMovie)
            /\ UNCHANGED searchHistory
    /\ UNCHANGED <<isSearching, suggested, weatherReason, topRated, TMDB_API_KEY,
                   fetches, previewVars, fnVars>>

\* click on the Back button, which is rendered only when hasSearched
handleBack ==
    /\ ShowBack
    /\ lastEvent' = Event("handleBack")
    /\ IF Len(searchHistory) > 0
       THEN LET previousSearch == searchHistory[Len(searchHistory)] IN
            /\ searchHistory' = SubSeq(searchHistory, 1, Len(searchHistory) - 1)
            /\ movies' = previousSearch.movies
            /\ searchedQuery' = previousSearch.query
            /\ query' = previousSearch.query
            /\ pointer' = PointerAfter(previousSearch.movies, hasSearched, suggested, hoveredMovie)
            /\ UNCHANGED <<hasSearched, selectedGenre>>
       ELSE /\ movies' = <<>>
            /\ query' = <<>>
            /\ searchedQuery' = <<>>
            /\ hasSearched' = FALSE
            /\ selectedGenre' = ""
            /\ pointer' = PointerAfter(<<>>, FALSE, suggested, hoveredMovie)
            /\ UNCHANGED searchHistory
    /\ UNCHANGED <<isSearching, loaderVars, fetches, previewVars, fnVars>>

-----------------------------------------------------------------------------
(* Responses to the requests of the pagination loop *)

\* a page arrives and the loop goes on: the next request is sent
FetchPage(i, data) ==
    /\ i \in 1..Len(fetches)
    /\ ~LoopBreaks(fetches[i], data)
    /\ fetches' = [fetches EXCEPT ![i] = LoopNext(fetches[i], data)]
    /\ lastEvent' = Event("FetchPage")
    /\ UNCHANGED <<searchVars, loaderVars, previewVars, pointer, fnVars>>

\* (variant: setMovies(prev => [...prev, ...allMovies]))
setMoviesAppend(f) == movies \o f.allMovies
\* setMovies(allMovies) / setMovies(genreMovies) after the loop: the new list
setMovies(f) == f.allMovies

\* the last response of the loop in handleSearch, or of the one awaited by
\* handleGenreSelect: setMovies(allMovies); setIsSearching(false)
SearchDone(i, data) ==
    /\ i \in 1..Len(fetches)
    /\ fetches[i].kind \in {"search", "genre"}
    /\ LoopBreaks(fetches[i], data)
    /\ LET f == LoopBody(fetches[i], data) IN
       /\ movies' = setMovies(f)
       /\ isSearching' = FALSE
       /\ pointer' = PointerAfter(setMovies(f), hasSearched, suggested, hoveredMovie)
       /\ lastEvent' = FetchEvent("SearchDone", f)
    /\ fetches' = RemoveAt(fetches, i)
    /\ UNCHANGED <<query, searchedQuery, hasSearched, searchHistory, selectedGenre,
                   loaderVars, previewVars, fnVars>>

\* the last response of a loop awaited by the mount effect: setSuggested
SuggestDone(i, data) ==
    /\ i \in 1..Len(fetches)
    /\ fetches[i].kind \in {"suggest", "fallback"}
    /\ LoopBreaks(fetches[i], data)
    /\ LET f == LoopBody(fetches[i], data) IN
       /\ SetSuggested(f.allMovies)
       /\ lastEvent' = FetchEvent("SuggestDone", f)
    /\ fetches' = RemoveAt(fetches, i)
    /\ UNCHANGED <<searchVars, weatherReason, topRated, TMDB_API_KEY, previewVars, fnVars>>

\* (variant: the pages read before the failure are shown)
SearchFailedPartial(i) ==
    /\ i \in 1..Len(fetches)
    /\ fetches[i].kind \in {"search", "genre"}
    /\ fetches' = RemoveAt(fetches, i)
    /\ movies' = fetches[i].allMovies
    /\ isSearching' = FALSE
    /\ lastEvent' = FetchEvent("SearchFailed", fetches[i])
    /\ UNCHANGED <<query, searchedQuery, hasSearched, searchHistory, selectedGenre,
                   loaderVars, previewVars, pointer, fnVars>>

\* a request of handleSearch or handleGenreSelect rejects or its body does not
\* parse: the handler's promise rejects and nobody catches it
SearchFailed(i) ==
    /\ i \in 1..Len(fetches)
    /\ fetches[i].kind \in {"search", "genre"}
    /\ fetches' = RemoveAt(fetches, i)
    /\ lastEvent' = FetchEvent("SearchFailed", fetches[i])
    /\ UNCHANGED <<searchVars, loaderVars, previewVars, pointer, fnVars>>

\* a request of fetchAllMoviesByGenre(genre) in the try block of the success
\* callback fails: the catch block up to the await in fetchTopRatedMovies
SuggestFailed(i) ==
    /\ i \in 1..Len(fetches)
    /\ fetches[i].kind = "suggest"
    /\ weatherReason' = TopRatedReason
    /\ BeginTopRated(RemoveAt(fetches, i))
    /\ lastEvent' = FetchEvent("SuggestFailed", fetches[i])
    /\ UNCHANGED <<searchVars, suggested, TMDB_API_KEY, previewVars, pointer, fnVars>>

\* a request of fetchAllMoviesByGenre("movie") fails: fetchTopRatedMovies
\* rejects; the error callback logs it, the catch block of the success
\* callback lets it escape; the list is not set either way
FallbackFailed(i) ==
    /\ i \in 1..Len(fetches)
    /\ fetches[i].kind = "fallback"
    /\ fetches' = RemoveAt(fetches, i)
    /\ loader' = "failed"
    /\ lastEvent' = FetchEvent("FallbackFailed", fetches[i])
    /\ UNCHANGED <<searchVars, suggested, weatherReason, topRated, TMDB_API_KEY,
                   previewVars, pointer, fnVars>>

-----------------------------------------------------------------------------
(* Trailer Resolver *)

\* a video of the videos endpoint
Video(type, site, key) == [type |-> type, site |-> site, key |-> key]

\* Array.prototype.find: the first element satisfying Test, or the no-video value
NoVideo == Video("", "", "")
RECURSIVE FindTrailer(_)
FindTrailer(vs) ==
    IF vs = <<>> THEN NoVideo
    ELSE IF Head(vs).type = "Trailer" /\ Head(vs).site = "YouTube" THEN Head(vs)
    ELSE FindTrailer(Tail(vs))
RECURSIVE FindTeaser(_)
FindTeaser(vs) ==
    IF vs = <<>> THEN NoVideo
    ELSE IF Head(vs).type = "Teaser" /\ Head(vs).site = "YouTube" THEN Head(vs)
    ELSE FindTeaser(Tail(vs))
RECURSIVE FindYouTube(_)
FindYouTube(vs) ==
    IF vs = <<>> THEN NoVideo
    ELSE IF Head(vs).site = "YouTube" THEN Head(vs)
    ELSE FindYouTube(Tail(vs))

\* (variant: the teaser preferred to the trailer)
SelectTrailerKeyTeaserFirst(vs) ==
    LET t == IF FindTeaser(vs) # NoVideo THEN FindTeaser(vs)
             ELSE IF FindTrailer(vs) # NoVideo THEN FindTrailer(vs)
             ELSE FindYouTube(vs)
    IN IF t = NoVideo \/ t.key = "" THEN NullKey ELSE t.key

\* step 3 of fetchTrailerFromTMDB: find(..) || find(..) || find(..), then
\* trailer?.key || null (an empty key is falsy)
SelectTrailerKey(vs) ==
    LET t == IF FindTrailer(vs) # NoVideo THEN FindTrailer(vs)
             ELSE IF FindTeaser(vs) # NoVideo THEN FindTeaser(vs)
             ELSE FindYouTube(vs)
    IN IF t = NoVideo \/ t.key = "" THEN NullKey ELSE t.key

\* (variant: a lookup without a key not flagged as an error)
ResolveTrailerNoError(m, key) ==
    /\ trailerCache' = [x \in DOMAIN trailerCache \cup {m} |->
                           IF x = m THEN key ELSE trailerCache[x]]
    /\ trailer' = [youtubeKey |-> key, loading |-> FALSE, error |-> FALSE]

\* the then-callback of the effect: the cache entry and the trailer state
ResolveTrailer(m, key) ==
    /\ trailerCache' = [x \in DOMAIN trailerCache \cup {m} |->
                           IF x = m THEN key ELSE trailerCache[x]]
    /\ trailer' = [youtubeKey |-> key, loading |-> FALSE, error |-> key = NullKey]

\* (variant: the cache emptied together with the trailer state on a close)
TrailerEffectClearing(hm) ==
    IF hm = hoveredMovie
    THEN UNCHANGED <<trailer, trailerCache, lookups>>
    ELSE IF hm = NoMovie
    THEN /\ trailer' = NoTrailer
         /\ trailerCache' = EmptyCache
         /\ UNCHANGED lookups
    ELSE IF hm \in DOMAIN trailerCache
    THEN /\ trailer' = [youtubeKey |-> trailerCache[hm], loading |-> FALSE,
                        error |-> trailerCache[hm] = NullKey]
         /\ UNCHANGED <<trailerCache, lookups>>
    ELSE IF ~TMDB_API_KEY
    THEN /\ ResolveTrailer(hm, NullKey)
         /\ UNCHANGED lookups
    ELSE /\ trailer' = [youtubeKey |-> NullKey, loading |-> TRUE, error |-> FALSE]
         /\ lookups' = Append(lookups, [m |-> hm, stage |-> "search"])
         /\ UNCHANGED trailerCache

\* useEffect(.., [hoveredMovie]) after a render in which hoveredMovie became hm
TrailerEffect(hm) ==
    IF hm = hoveredMovie
    THEN UNCHANGED <<trailer, trailerCache, lookups>>
    ELSE IF hm = NoMovie
    THEN /\ trailer' = NoTrailer
         /\ UNCHANGED <<trailerCache, lookups>>
    ELSE IF hm \in DOMAIN trailerCache
    THEN /\ trailer' = [youtubeKey |-> trailerCache[hm], loading |-> FALSE,
                        error |-> trailerCache[hm] = NullKey]
         /\ UNCHANGED <<trailerCache, lookups>>
    ELSE IF ~TMDB_API_KEY
    \* fetchTrailerFromTMDB returns null at once: the then-callback runs in
    \* the same task, after setTrailer({loading: true})
    THEN /\ ResolveTrailer(hm, NullKey)
         /\ UNCHANGED lookups
    ELSE /\ trailer' = [youtubeKey |-> NullKey, loading |-> TRUE, error |-> FALSE]
         /\ lookups' = Append(lookups, [m |-> hm, stage |-> "search"])
         /\ UNCHANGED trailerCache

\* whether the effect sends a lookup request when hm becomes the hovered movie
StartsLookup(hm) ==
    hm # hoveredMovie /\ hm # NoMovie /\ hm \notin DOMAIN trailerCache /\ TMDB_API_KEY

\* the search response: n candidates (-1: no results field)
LookupSearched(i, n) ==
    /\ i \in 1..Len(lookups)
    /\ lookups[i].stage = "search"
    /\ IF n <= 0
       THEN /\ ResolveTrailer(lookups[i].m, NullKey)
            /\ lookups' = RemoveAt(lookups, i)
       ELSE /\ lookups' = [lookups EXCEPT ![i].stage = "videos"]
            /\ UNCHANGED <<trailer, trailerCache>>
    /\ lastEvent' = MovieEvent("LookupSearched", lookups[i].m)
    /\ UNCHANGED <<searchVars, loaderVars, fetches, hoveredMovie, previewMode,
                   previewPosition, hoverTimeoutRef, closeTimeoutRef, timers,
                   pointer, fnVars>>

\* the videos response: vs = data.results (<<>> also for a missing field)
LookupVideos(i, vs) ==
    /\ i \in 1..Len(lookups)
    /\ lookups[i].stage = "videos"
    /\ ResolveTrailer(lookups[i].m, SelectTrailerKey(vs))
    /\ lookups' = RemoveAt(lookups, i)
    /\ lastEvent' = MovieEvent("LookupVideos", lookups[i].m)
    /\ UNCHANGED <<searchVars, loaderVars, fetches, hoveredMovie, previewMode,
                   previewPosition, hoverTimeoutRef, closeTimeoutRef, timers,
                   pointer, fnVars>>

\* (variant: the failure leaves the resolver as an error, the then-callback
\* of the effect never runs)
LookupFailedThrowing(i) ==
    /\ i \in 1..Len(lookups)
    /\ lookups' = RemoveAt(lookups, i)
    /\ lastEvent' = MovieEvent("LookupFailed", lookups[i].m)
    /\ UNCHANGED <<searchVars, loaderVars, fetches, hoveredMovie, previewMode,
                   previewPosition, hoverTimeoutRef, closeTimeoutRef, timers,
                   trailer, trailerCache, pointer, fnVars>>

\* a request of the lookup rejects or does not parse: catch, return null
LookupFailed(i) ==
    /\ i \in 1..Len(lookups)
    /\ ResolveTrailer(lookups[i].m, NullKey)
    /\ lookups' = RemoveAt(lookups, i)
    /\ lastEvent' = MovieEvent("LookupFailed", lookups[i].m)
    /\ UNCHANGED <<searchVars, loaderVars, fetches, hoveredMovie, previewMode,
                   previewPosition, hoverTimeoutRef, closeTimeoutRef, timers,
                   pointer, fnVars>>

-----------------------------------------------------------------------------
(* Preview Controller *)

\* window.setTimeout returns an id that no live timer and no ref holds
\* (ids are positive, so a ref holding one is truthy; 0 stands for null)
NewTimerId ==
    CHOOSE id \in 1..(Cardinality(timers) + 3) :
        /\ id \notin {t.id : t \in timers} \cup {hoverTimeoutRef, closeTimeoutRef}
        /\ \A j \in 1..(id - 1) :
              j \in {t.id : t \in timers} \cup {hoverTimeoutRef, closeTimeoutRef}

\* (variant: the timer left running)
clearTimeoutForgotten(ts, ref) == ts
\* if (ref.current) clearTimeout(ref.current): the timer table afterwards
clearTimeout(ts, ref) == {t \in ts : t.id # ref}

\* setTimeout(.., 700) of handleMouseEnter and setTimeout(.., 300) of
\* handleMouseLeave.  The two are never live together with the same deadline
\* order at stake, so the model lets a live timer fire at any moment.
HoverDelay == 700
CloseDelay == 300
ShowTimer(id, m) == [id |-> id, kind |-> "show", m |-> m, delay |-> HoverDelay]
CloseTimer(id) == [id |-> id, kind |-> "close", m |-> NoMovie, delay |-> CloseDelay]

\* lengths are in half pixels, so that rect.width / 2 is exact
PreviewWidth == 350
EdgeMargin == 10

\* (variant: no clamp at the left edge)
PositionLeftNoMinimum(g) ==
    LET left0 == g.left + g.scrollLeft + (g.width \div 2) - 2 * (PreviewWidth \div 2)
    IN IF left0 + 2 * PreviewWidth > g.innerWidth - 2 * EdgeMargin
       THEN g.innerWidth - 2 * (PreviewWidth + EdgeMargin)
       ELSE left0

\* the position computed by the show-timer callback from the card rectangle
\* g.left, g.top, g.width, the scroll offsets g.scrollLeft, g.scrollTop and
\* window.innerWidth g.innerWidth
PositionLeft(g) ==
    LET left0 == g.left + g.scrollLeft + (g.width \div 2) - 2 * (PreviewWidth \div 2)
        left1 == IF left0 < 2 * EdgeMargin THEN 2 * EdgeMargin ELSE left0
    IN IF left1 + 2 * PreviewWidth > g.innerWidth - 2 * EdgeMargin
       THEN g.innerWidth - 2 * (PreviewWidth + EdgeMargin)
       ELSE left1

PositionTop(g) == g.top + g.scrollTop - 2 * 20

\* (variant: a pending close survives the entry of a card)
handleMouseEnterKeepsClose(m) ==
    /\ pointer.on = "none"
    /\ m \in Range(DisplayedCards)
    /\ LET id == NewTimerId IN
       /\ timers' = clearTimeout(timers, hoverTimeoutRef) \cup {ShowTimer(id, m)}
       /\ hoverTimeoutRef' = id
    /\ pointer' = [on |-> "card", m |-> m]
    /\ lastEvent' = MovieEvent("handleMouseEnter", m)
    /\ UNCHANGED <<searchVars, loaderVars, fetches, hoveredMovie, previewMode,
                   previewPosition, closeTimeoutRef, trailer, trailerCache, lookups,
                   fnVars>>

\* onMouseEnter of the card of movie m
handleMouseEnter(m) ==
    /\ pointer.on = "none"
    /\ m \in Range(DisplayedCards)
    /\ LET id == NewTimerId IN
       /\ timers' = clearTimeout(clearTimeout(timers, hoverTimeoutRef), closeTimeoutRef)
                        \cup {ShowTimer(id, m)}
       /\ hoverTimeoutRef' = id
    /\ closeTimeoutRef' = 0
    /\ pointer' = [on |-> "card", m |-> m]
    /\ lastEvent' = MovieEvent("handleMouseEnter", m)
    /\ UNCHANGED <<searchVars, loaderVars, fetches, hoveredMovie, previewMode,
                   previewPosition, trailer, trailerCache, lookups, fnVars>>

\* onMouseLeave of a card or of the preview panel
handleMouseLeave ==
    /\ pointer.on \in {"card", "panel"}
    /\ hoverTimeoutRef' = 0
    /\ IF previewMode = "modal" /\ hoveredMovie # NoMovie
       THEN /\ timers' = clearTimeout(timers, hoverTimeoutRef)
            /\ UNCHANGED closeTimeoutRef
       ELSE LET id == NewTimerId IN
            /\ timers' = clearTimeout(timers, hoverTimeoutRef) \cup {CloseTimer(id)}
            /\ closeTimeoutRef' = id
    /\ pointer' = NoPointer
    /\ lastEvent' = MovieEvent("handleMouseLeave", pointer.m)
    /\ UNCHANGED <<searchVars, loaderVars, fetches, hoveredMovie, previewMode,
                   previewPosition, trailer, trailerCache, lookups, fnVars>>

\* (variant: the close timer left running when the pointer enters the panel)
handlePreviewEnterKeepsTimer ==
    /\ pointer.on = "none"
    /\ hoveredMovie # NoMovie
    /\ timers' = clearTimeout(timers, hoverTimeoutRef)
    /\ pointer' = [on |-> "panel", m |-> NoMovie]
    /\ lastEvent' = Event("handlePreviewEnter")
    /\ UNCHANGED <<searchVars, loaderVars, fetches, hoveredMovie, previewMode,
                   previewPosition, hoverTimeoutRef, closeTimeoutRef, trailer,
                   trailerCache, lookups, fnVars>>

\* onMouseEnter of the preview panel, rendered while a movie is hovered
handlePreviewEnter ==
    /\ pointer.on = "none"
    /\ hoveredMovie # NoMovie
    /\ timers' = clearTimeout(clearTimeout(timers, hoverTimeoutRef), closeTimeoutRef)
    /\ closeTimeoutRef' = 0
    /\ pointer' = [on |-> "panel", m |-> NoMovie]
    /\ lastEvent' = Event("handlePreviewEnter")
    /\ UNCHANGED <<searchVars, loaderVars, fetches, hoveredMovie, previewMode,
                   previewPosition, hoverTimeoutRef, trailer, trailerCache, lookups,
                   fnVars>>

\* (variant: the Escape listener acting for the modal only)
handleInstantCloseModalOnly(via) ==
    /\ hoveredMovie # NoMovie
    /\ via = "close" => previewMode = "modal"
    /\ lastEvent' = MovieEvent(via, hoveredMovie)
    /\ IF via = "Escape" /\ previewMode # "modal"
       THEN UNCHANGED <<timers, hoveredMovie, trailer, trailerCache, lookups, pointer>>
       ELSE /\ timers' = clearTimeout(clearTimeout(timers, hoverTimeoutRef), closeTimeoutRef)
            /\ hoveredMovie' = NoMovie
            /\ TrailerEffect(NoMovie)
            /\ pointer' = PointerAfter(movies, hasSearched, suggested, NoMovie)
    /\ UNCHANGED <<searchVars, loaderVars, fetches, previewMode, previewPosition,
                   hoverTimeoutRef, closeTimeoutRef, fnVars>>

\* (variant: the close leaves the timers running)
handleInstantCloseKeepsTimers(via) ==
    /\ hoveredMovie # NoMovie
    /\ via = "close" => previewMode = "modal"
    /\ hoveredMovie' = NoMovie
    /\ TrailerEffect(NoMovie)
    /\ pointer' = PointerAfter(movies, hasSearched, suggested, NoMovie)
    /\ lastEvent' = MovieEvent(via, hoveredMovie)
    /\ UNCHANGED <<searchVars, loaderVars, fetches, previewMode, previewPosition,
                   hoverTimeoutRef, closeTimeoutRef, timers, fnVars>>

\* Escape key (the listener acts only while a movie is hovered), click on the
\* backdrop, click on the close button of the modal
handleInstantClose(via) ==
    /\ hoveredMovie # NoMovie
    /\ via = "close" => previewMode = "modal"
    /\ timers' = clearTimeout(clearTimeout(timers, hoverTimeoutRef), closeTimeoutRef)
    /\ hoveredMovie' = NoMovie
    /\ TrailerEffect(NoMovie)
    /\ pointer' = PointerAfter(movies, hasSearched, suggested, NoMovie)
    /\ lastEvent' = MovieEvent(via, hoveredMovie)
    /\ UNCHANGED <<searchVars, loaderVars, fetches, previewMode, previewPosition,
                   hoverTimeoutRef, closeTimeoutRef, fnVars>>

\* the callback of the 700ms timer set by handleMouseEnter; g is the geometry
\* read at that moment
ShowTimerFires(t, g) ==
    /\ t \in timers
    /\ t.kind = "show"
    /\ timers' = timers \ {t}
    /\ previewPosition' = [top |-> PositionTop(g), left |-> PositionLeft(g)]
    /\ hoveredMovie' = t.m
    /\ TrailerEffect(t.m)
    /\ lastEvent' = MovieEvent("ShowTimerFires", t.m)
    /\ UNCHANGED <<searchVars, loaderVars, fetches, previewMode, hoverTimeoutRef,
                   closeTimeoutRef, pointer, fnVars>>

\* the callback of the 300ms timer set by handleMouseLeave
CloseTimerFires(t) ==
    /\ t \in timers
    /\ t.kind = "close"
    /\ timers' = timers \ {t}
    /\ hoveredMovie' = NoMovie
    /\ TrailerEffect(NoMovie)
    /\ pointer' = PointerAfter(movies, hasSearched, suggested, NoMovie)
    /\ lastEvent' = MovieEvent("CloseTimerFires", hoveredMovie)
    /\ UNCHANGED <<searchVars, loaderVars, fetches, previewMode, previewPosition,
                   hoverTimeoutRef, closeTimeoutRef, fnVars>>

\* (variant: every click switches to the other mode)
setPreviewModeFlip(mode) ==
    /\ previewMode' = IF previewMode = "expand" THEN "modal" ELSE "expand"
    /\ lastEvent' = Event("setPreviewMode")
    /\ UNCHANGED <<searchVars, loaderVars, fetches, hoveredMovie, previewPosition,
                   hoverTimeoutRef, closeTimeoutRef, timers, trailer, trailerCache,
                   lookups, pointer, fnVars>>

\* click on one of the two toggle buttons
setPreviewMode(mode) ==
    /\ previewMode' = mode
    /\ lastEvent' = Event("setPreviewMode")
    /\ UNCHANGED <<searchVars, loaderVars, fetches, hoveredMovie, previewPosition,
                   hoverTimeoutRef, closeTimeoutRef, timers, trailer, trailerCache,
                   lookups, pointer, fnVars>>

-----------------------------------------------------------------------------
(* The application: every task that can run *)

\* inputs of the environment in the UI specifications
WeatherSamples == {<<0, 25>>, <<20, 15>>}
UserGenres == {"", "action"}
PreviewModes == {"expand", "modal"}
CloseActions == {"Escape", "backdrop", "close"}
Geometries == {[left |-> 0, top |-> 200, width |-> 300, scrollLeft |-> 0,
                scrollTop |-> 0, innerWidth |-> 2048]}
VideoLists == {<<>>, <<Video("Teaser", "YouTube", "k1"), Video("Trailer", "YouTube", "k2")>>}

SearchesInFlight == Cardinality({i \in 1..Len(fetches) : fetches[i].kind \in {"search", "genre"}})

\* a click on Search is explored when it stays within the bounds: at most
\* MaxInFlight searches awaiting a response, at most depth entries on the stack
WithinBounds(depth) ==
    trim(query) # <<>> =>
        /\ SearchesInFlight < MaxInFlight
        /\ hasSearched /\ searchedQuery # <<>> => Len(searchHistory) < depth

LoaderStep ==
    \/ GeoSuccess
    \/ GeoError
    \/ \E w \in WeatherSamples : WeatherResolved(w[1], w[2])
    \/ WeatherFailed
    \/ \E n \in -1..MaxTopRatedLen : TopRatedList(n)
    \/ \E b \in BOOLEAN : TopRatedDetail(b)
    \/ TopRatedFailed

SearchStep ==
    \/ \E text \in QueryInputs : setQuery(text)
    \/ WithinBounds(MaxHistory) /\ handleSearch
    \/ \E g \in UserGenres :
          /\ g # "" => SearchesInFlight < MaxInFlight
          /\ handleGenreSelect(g)
    \/ handleBack

FetchStep(depth, lens) ==
    \E i \in 1..Len(fetches) :
        \/ \E data \in Responses(fetches[i], depth, lens) : FetchPage(i, data)
        \/ \E data \in Responses(fetches[i], depth, lens) : SearchDone(i, data)
        \/ \E data \in Responses(fetches[i], depth, lens) : SuggestDone(i, data)
        \/ SearchFailed(i)
        \/ SuggestFailed(i)
        \/ FallbackFailed(i)

PreviewStep ==
    \/ \E m \in Range(DisplayedCards) : handleMouseEnter(m)
    \/ handleMouseLeave
    \/ handlePreviewEnter
    \/ \E via \in CloseActions : handleInstantClose(via)
    \/ \E t \in timers : \E g \in Geometries :
          /\ StartsLookup(t.m) => Len(lookups) < MaxLookups
          /\ ShowTimerFires(t, g)
    \/ \E t \in timers : CloseTimerFires(t)
    \/ \E mode \in PreviewModes : setPreviewMode(mode)

LookupStep ==
    \E i \in 1..Len(lookups) :
        \/ \E n \in -1..1 : LookupSearched(i, n)
        \/ \E vs \in VideoLists : LookupVideos(i, vs)
        \/ LookupFailed(i)

Next ==
    \/ LoaderStep
    \/ SearchStep
    \/ FetchStep(1, {MaxPageLen})
    \/ PreviewStep
    \/ LookupStep

Spec == Init /\ [][Next]_vars

\* The search field, the Search button and the Back button while the
\* geolocation request is still unanswered (no suggestion list yet).  The
\* provider has one page for each query.
NextSearch ==
    \/ \E text \in QueryInputs : setQuery(text)
    \/ WithinBounds(MaxHistory) /\ handleSearch
    \/ handleBack
    \/ \E i \in 1..Len(fetches) :
          \/ \E data \in Responses(fetches[i], 1, {MaxPageLen}) : FetchPage(i, data)
          \/ \E data \in Responses(fetches[i], 1, {MaxPageLen}) : SearchDone(i, data)
          \/ SearchFailed(i)

SpecSearch == InitNoKey /\ [][NextSearch]_vars

\* Leaving the suggestions view and coming back to it: geolocation is denied
\* and the list comes from the keyword search; the user searches one text or
\* picks a genre, and goes back.  The provider has one page for each query.
NextBack ==
    \/ GeoError
    \/ setQuery(<<"a">>)
    \/ WithinBounds(MaxBackHistory) /\ handleSearch
    \/ \E g \in UserGenres :
          /\ g # "" => SearchesInFlight < MaxInFlight
          /\ handleGenreSelect(g)
    \/ handleBack
    \/ \E i \in 1..Len(fetches) :
          \/ \E data \in Responses(fetches[i], 1, {MaxPageLen}) : FetchPage(i, data)
          \/ \E data \in Responses(fetches[i], 1, {MaxPageLen}) : SearchDone(i, data)
          \/ \E data \in Responses(fetches[i], 1, {MaxPageLen}) : SuggestDone(i, data)

SpecBack == InitNoKey /\ [][NextBack]_vars

\* The preview controller over the cards of the suggestion list, which the
\* loader gets for the genre of the weather (one page of MaxPageLen movies);
\* no search is made.
NextPreview ==
    \/ GeoSuccess
    \/ WeatherResolved(0, 25)
    \/ \E i \in 1..Len(fetches) :
          \/ \E data \in Responses(fetches[i], 1, {MaxPageLen}) : FetchPage(i, data)
          \/ \E data \in Responses(fetches[i], 1, {MaxPageLen}) : SuggestDone(i, data)
    \/ PreviewStep
    \/ LookupStep

SpecPreview == Init /\ [][NextPreview]_vars

-----------------------------------------------------------------------------
(* One invocation of the pagination loop against a provider that has a     *)
(* page of data for every page number, started by each of its callers:     *)
(* handleSearch, handleGenreSelect, the success callback (genre of the     *)
(* weather) and the error callback (fetchTopRatedMovies without a key).    *)

\* no loop has been started yet
Fresh == fetches = <<>> /\ ~hasSearched /\ loader \in {"locating", "weather"}

NextFetch ==
    \/ Fresh /\ setQuery(<<"a">>)
    \/ Fresh /\ handleSearch
    \/ Fresh /\ handleGenreSelect("action")
    \/ Fresh /\ GeoSuccess
    \/ Fresh /\ WeatherResolved(0, 25)
    \/ Fresh /\ GeoError
    \/ \E i \in 1..Len(fetches) :
          \/ \E data \in Responses(fetches[i], MaxPages + 1, {0, MaxPageLen}) : FetchPage(i, data)
          \/ \E data \in Responses(fetches[i], MaxPages + 1, {0, MaxPageLen}) : SearchDone(i, data)
          \/ \E data \in Responses(fetches[i], MaxPages + 1, {0, MaxPageLen}) : SuggestDone(i, data)

SpecFetch == InitNoKey /\ [][NextFetch]_vars

-----------------------------------------------------------------------------
(* The Genre Mapper applied to every weather code and temperature *)

Codes == (0 - BelowZero)..MaxCode
Temps == (0 - BelowZero)..MaxTemp

InitGenre ==
    /\ InitApp
    /\ ~TMDB_API_KEY
    /\ fnIn \in Codes \X Temps
    /\ fnOut = <<>>

ApplyGenre ==
    /\ fnOut = <<>>
    /\ fnOut' = <<getGenreForWeather(fnIn[1], fnIn[2])>>
    /\ lastEvent' = Event("getGenreForWeather")
    /\ UNCHANGED <<searchVars, loaderVars, fetches, previewVars, pointer, fnIn>>

SpecGenre == InitGenre /\ [][ApplyGenre]_vars

-----------------------------------------------------------------------------
(* C1 *)

InCodeRange(c) == c \in 0..3 \cup 45..48 \cup 51..67 \cup 71..77

\* C1: for every integer weather code and temperature, getGenreForWeather
\* returns "adventure" for codes 0..3, "mystery" for 45..48, "romance" for
\* 51..67, "fantasy" for 71..77 whatever the temperature, and for any other
\* code "action" if temp >= 30, "family" if temp <= 5, otherwise "drama"; the
\* result is always one of the seven genre literals.
C1_GenreTable ==
    fnOut # <<>> =>
        LET c == fnIn[1]
            t == fnIn[2]
            g == fnOut[1]
        IN /\ c \in 0..3 => g = "adventure"
           /\ c \in 45..48 => g = "mystery"
           /\ c \in 51..67 => g = "romance"
           /\ c \in 71..77 => g = "fantasy"
           /\ ~InCodeRange(c) /\ t >= 30 => g = "action"
           /\ ~InCodeRange(c) /\ t <= 5 => g = "family"
           /\ ~InCodeRange(c) /\ t > 5 /\ t < 30 => g = "drama"
           /\ g \in GENRES
           /\ Cardinality(GENRES) = 7

\* a rain code on a hot day has been mapped: the code range wins
C1_Witness == fnOut = <<"romance">> /\ fnIn[1] = 67 /\ fnIn[2] >= 30


\* ---------------------------------------------------------------------------
\* The paginated fetcher

\* the loop whose completion is the last event, if the last event is one
Completed == lastEvent.type \in {"SearchDone", "SuggestDone"}

\* C2: one query (a suggestion load, a genre selection or an explicit search)
\* issues at most 10 page requests, whether its loop is still running or has
\* completed.
C2_AtMostTenRequests ==
    /\ \A i \in 1..Len(fetches) : fetches[i].issued <= 10
    /\ Completed => lastEvent.f.issued <= 10

\* a search that got results on every page and stopped at the tenth
C2_Witness ==
    /\ lastEvent.type = "SearchDone"
    /\ lastEvent.f.kind = "search"
    /\ lastEvent.f.issued = 10
    /\ \A j \in 1..10 : lastEvent.f.log[j].has /\ lastEvent.f.log[j].Search # <<>>

\* the first response of a log that omits its results; 11 if none does
FirstOmitting(log) ==
    IF \E j \in 1..Len(log) : ~log[j].has
    THEN CHOOSE j \in 1..Len(log) :
            ~log[j].has /\ \A h \in 1..(j - 1) : log[h].has
    ELSE 11

RECURSIVE ConcatPages(_, _)
ConcatPages(log, n) ==
    IF n = 0 THEN <<>> ELSE ConcatPages(log, n - 1) \o log[n].Search

\* C3: the list a completed loop returns is the concatenation, in ascending
\* page order, of the results of pages 1..k-1, where k is the first page whose
\* response omits its results (11 if none does); the j-th request is for page
\* j, and no page after k (nor after 10) is requested.
C3_ConcatInPageOrder ==
    Completed =>
        LET f == lastEvent.f
            k == FirstOmitting(f.log)
            requested == IF k <= 10 THEN k ELSE 10
        IN /\ Len(f.log) = requested
           /\ f.issued = requested
           /\ \A j \in 1..requested : f.log[j] \in
                  {Absent} \cup {Page(f.q, j, n) : n \in 0..(MaxPageLen + 1)}
           /\ f.allMovies = ConcatPages(f.log, k - 1)
           /\ lastEvent.type = "SearchDone" => movies = f.allMovies
           /\ lastEvent.type = "SuggestDone" => suggested = f.allMovies

\* a loop that got two full pages and then a response without results
C3_Witness ==
    /\ lastEvent.type = "SearchDone"
    /\ Len(lastEvent.f.log) = 3
    /\ FirstOmitting(lastEvent.f.log) = 3
    /\ Len(lastEvent.f.allMovies) = 2 * MaxPageLen
    /\ movies = lastEvent.f.allMovies

\* ---------------------------------------------------------------------------
\* The search controller

\* a text with nothing but whitespace in it
IsBlank(t) == \A i \in 1..Len(t) : t[i] = " "

\* C4: a submission whose text is empty or only whitespace issues no request
\* and leaves the results, the searched query, the history, the searching
\* flag and the has-searched flag (and the rest of the search state) as they
\* were.
C4_BlankSubmitNoEffect ==
    [][(lastEvent'.type = "handleSearch" /\ IsBlank(query))
        => UNCHANGED <<fetches, movies, searchedQuery, searchHistory,
                       isSearching, hasSearched, query, selectedGenre,
                       suggested>>]_vars

\* a whitespace-only text submitted over the results of an earlier search
C4_Witness ==
    /\ lastEvent.type = "handleSearch"
    /\ query # <<>>
    /\ IsBlank(query)
    /\ hasSearched
    /\ movies # <<>>
    /\ searchedQuery # <<>>
    /\ fetches = <<>>

\* C5: once an explicit search has completed, the displayed results are
\* exactly the results of that search: the list its loop accumulated, every
\* movie of which was returned for its query, so that no movie returned for
\* the query of an earlier search is among them.
C5_SecondSearchReplaces ==
    lastEvent.type = "SearchDone" =>
        /\ movies = lastEvent.f.allMovies
        /\ Len(movies) > 0 => DisplayedGrid = "results" /\ DisplayedCards = lastEvent.f.allMovies
        /\ \A j \in 1..Len(movies) : movies[j].q = lastEvent.f.q

\* B has completed with results after A had completed and been displayed
C5_Witness ==
    /\ lastEvent.type = "SearchDone"
    /\ movies # <<>>
    /\ searchedQuery = lastEvent.f.q
    /\ searchHistory # <<>>
    /\ LET previousSearch == searchHistory[Len(searchHistory)] IN
       /\ previousSearch.query # lastEvent.f.q
       /\ previousSearch.movies # <<>>
       /\ \A j \in 1..Len(previousSearch.movies) :
              previousSearch.movies[j].q = previousSearch.query

\* C6: when an explicit search completes with no results, the page shows
\* "No movies found for" the query of that search and not the suggestions.
C6_EmptySearchShowsNoResults ==
    (/\ lastEvent.type = "SearchDone"
     /\ lastEvent.f.kind = "search"
     /\ lastEvent.f.allMovies = <<>>)
        => /\ ShowNoResults
           /\ searchedQuery = lastEvent.f.q
           /\ ~ShowSuggestions

\* C7: Back with an empty history returns to the initial view: no results,
\* has-searched false, the field and the searched query cleared, the genre
\* selection reset, and the suggestion list left as it is and displayed
\* again.
C7_BackToSuggestions ==
    [][(lastEvent'.type = "handleBack" /\ searchHistory = <<>>)
        => /\ movies' = <<>>
           /\ ~hasSearched'
           /\ query' = <<>>
           /\ searchedQuery' = <<>>
           /\ selectedGenre' = ""
           /\ searchHistory' = <<>>
           /\ suggested' = suggested
           /\ ~ShowNoResults'
           /\ suggested # <<>> => ShowSuggestions' /\ DisplayedCards' = suggested]_vars

\* Back has brought the suggestions back
C7_Witness ==
    /\ lastEvent.type = "handleBack"
    /\ ~hasSearched
    /\ suggested # <<>>
    /\ ShowSuggestions
    /\ DisplayedCards = suggested
    /\ query = <<>>
    /\ selectedGenre = ""

\* C8: Back with a non-empty history removes exactly the newest entry and
\* restores its results, its query as the searched query and as the text of
\* the field; a submission made while the results of a searched query are
\* the current view pushes exactly that view.
C8_BackRestoresTop ==
    [][/\ (lastEvent'.type = "handleBack" /\ searchHistory # <<>>)
           => LET previousSearch == searchHistory[Len(searchHistory)] IN
              /\ searchHistory' = SubSeq(searchHistory, 1, Len(searchHistory) - 1)
              /\ movies' = previousSearch.movies
              /\ searchedQuery' = previousSearch.query
              /\ query' = previousSearch.query
              /\ hasSearched' = hasSearched
       /\ (/\ lastEvent'.type = "handleSearch"
           /\ ~IsBlank(query)
           /\ hasSearched
           /\ searchedQuery # <<>>)
           => searchHistory' =
                  Append(searchHistory, [query |-> searchedQuery, movies |-> movies])]_vars

\* one Back after two searches: the first one's query and results are shown
C8_Witness ==
    /\ lastEvent.type = "handleBack"
    /\ hasSearched
    /\ movies # <<>>
    /\ searchedQuery # <<>>
    /\ query = searchedQuery
    /\ \A j \in 1..Len(movies) : movies[j].q = searchedQuery
    /\ searchHistory = <<>>

\* ---------------------------------------------------------------------------
\* The preview controller

\* the show timers that a step removes from the timer table
ShowTimersGone == {t \in timers : t.kind = "show" /\ t \notin timers'}

\* C9: when the pointer leaves a card, the show timer is cancelled: no show
\* timer is pending after the leave, a show timer is armed only by an entry
\* of a card, and a preview becomes visible and a trailer lookup starts only
\* in the callback of a pending show timer.  So the hover that was left
\* before its timer elapsed never shows the preview nor starts a lookup.
C9_LeaveCancelsShow ==
    /\ [](lastEvent.type = "handleMouseLeave" => \A t \in timers : t.kind # "show")
    /\ [][\A t \in timers' \ timers :
              t.kind = "show" => lastEvent'.type = "handleMouseEnter" /\ t.m = lastEvent'.m]_vars
    /\ [][((hoveredMovie' # hoveredMovie /\ hoveredMovie' # NoMovie)
              \/ Len(lookups') > Len(lookups))
            => \E t \in ShowTimersGone : t.m = hoveredMovie']_vars

\* a card was entered and left, and no preview has ever been shown
C9_Witness ==
    /\ lastEvent.type = "handleMouseLeave"
    /\ lastEvent.m # NoMovie
    /\ hoveredMovie = NoMovie
    /\ TMDB_API_KEY
    /\ lookups = <<>>
    /\ DOMAIN trailerCache = {}
    /\ \A t \in timers : t.kind = "close"

\* C10: when the show timer of a card elapses, the preview of that card's
\* movie is visible, and a preview becomes visible in no other step; while a
\* preview is visible, in either mode, Escape and a click on the backdrop
\* are possible and hide it in that very step.
C10_ShowThenInstantClose ==
    /\ [](lastEvent.type = "ShowTimerFires"
            => hoveredMovie = lastEvent.m /\ hoveredMovie # NoMovie)
    /\ [][(hoveredMovie' # hoveredMovie /\ hoveredMovie' # NoMovie)
            => /\ lastEvent'.type = "ShowTimerFires"
               /\ \E t \in ShowTimersGone : t.m = hoveredMovie' /\ t.delay = 700]_vars
    /\ [](lastEvent.type \in {"Escape", "backdrop"} => hoveredMovie = NoMovie)
    /\ [](hoveredMovie # NoMovie
            => /\ ENABLED handleInstantClose("Escape")
               /\ ENABLED handleInstantClose("backdrop"))

\* the pointer stayed on a card until its preview came up as a modal, and
\* Escape has hidden it
C10_Witness ==
    /\ lastEvent.type = "Escape"
    /\ lastEvent.m # NoMovie
    /\ previewMode = "modal"
    /\ pointer.on = "card"
    /\ pointer.m = lastEvent.m
    /\ hoveredMovie = NoMovie

\* C11: in modal mode a visible preview is hidden only by Escape, a click on
\* the backdrop or the close button: no leave and no timer callback hides it.
C11_ModalClosedOnlyExplicitly ==
    [][(previewMode = "modal" /\ hoveredMovie # NoMovie /\ hoveredMovie' = NoMovie)
        => lastEvent'.type \in CloseActions]_vars

\* ---------------------------------------------------------------------------
\* The trailer lookups of repeated hovers

\* trailer lookups that may be awaiting a response together where a repeated
\* hover over one movie is at stake
MaxTrailerLookups == 2

\* weather suggestions, hovers, closes and lookup responses
NextTrailer ==
    \/ GeoSuccess
    \/ WeatherResolved(0, 25)
    \/ \E i \in 1..Len(fetches) :
          \/ \E data \in Responses(fetches[i], 1, {MaxPageLen}) : FetchPage(i, data)
          \/ \E data \in Responses(fetches[i], 1, {MaxPageLen}) : SuggestDone(i, data)
    \/ \E m \in Range(DisplayedCards) : handleMouseEnter(m)
    \/ handleMouseLeave
    \/ handleInstantClose("Escape")
    \/ \E t \in timers : \E g \in Geometries :
          /\ StartsLookup(t.m) => Len(lookups) < MaxTrailerLookups
          /\ ShowTimerFires(t, g)
    \/ \E t \in timers : CloseTimerFires(t)
    \/ LookupStep

SpecTrailer == Init /\ [][NextTrailer]_vars

\* the lookups awaiting a response for movie m
LookupsFor(m) == {i \in 1..Len(lookups) : lookups[i].m = m}

\* C12: at most one trailer lookup is issued per movie and the cache entry of
\* a movie is written at most once: no two lookups for one movie are awaited
\* together, a lookup is issued only for a movie that has neither an entry
\* nor a lookup under way, an outcome is stored only for a movie without an
\* entry, and a hover over a movie with an entry takes the entry and issues
\* nothing.
C12_OneLookupPerMovie ==
    /\ [](\A m \in {lookups[i].m : i \in 1..Len(lookups)} : Cardinality(LookupsFor(m)) <= 1)
    /\ [][Len(lookups') > Len(lookups)
            => /\ hoveredMovie' \notin DOMAIN trailerCache
               /\ LookupsFor(hoveredMovie') = {}]_vars
    /\ [][\A m \in DOMAIN trailerCache' :
              m \in DOMAIN trailerCache
                  => /\ trailerCache'[m] = trailerCache[m]
                     /\ ~(Len(lookups') < Len(lookups) /\ lastEvent'.m = m)]_vars
    /\ [][(lastEvent'.type = "ShowTimerFires" /\ hoveredMovie' # hoveredMovie
             /\ hoveredMovie' \in DOMAIN trailerCache)
            => /\ lookups' = lookups
               /\ trailerCache' = trailerCache
               /\ trailer'.youtubeKey = trailerCache[hoveredMovie']
               /\ ~trailer'.loading]_vars

\* ---------------------------------------------------------------------------
\* The trailer cache over a whole session

\* no request of a pagination loop is awaiting its response
Idle == fetches = <<>>

\* searches, genre selections, Back, and the preview with its lookups, while
\* the geolocation request stays unanswered (no suggestions).  A query is
\* started when no other is under way, the provider has one page of one
\* movie for each query, a search is submitted from a view that is not
\* pushed on the stack, and a lookup is started when no other is under way.
NextSession ==
    \/ setQuery(<<"a">>)
    \/ Idle /\ WithinBounds(0) /\ handleSearch
    \/ \E g \in UserGenres : (g # "" => Idle) /\ handleGenreSelect(g)
    \/ handleBack
    \/ \E i \in 1..Len(fetches) :
          \/ \E data \in Responses(fetches[i], 1, {1}) : FetchPage(i, data)
          \/ \E data \in Responses(fetches[i], 1, {1}) : SearchDone(i, data)
    \/ \E m \in Range(DisplayedCards) : handleMouseEnter(m)
    \/ handleMouseLeave
    \/ handlePreviewEnter
    \/ \E via \in CloseActions : handleInstantClose(via)
    \/ \E t \in timers : \E g \in Geometries :
          /\ StartsLookup(t.m) => lookups = <<>>
          /\ ShowTimerFires(t, g)
    \/ \E t \in timers : CloseTimerFires(t)
    \/ \E mode \in PreviewModes : setPreviewMode(mode)
    \/ LookupStep

SpecSession == Init /\ [][NextSession]_vars

\* C13: an entry of the trailer cache, a key or the negative result, is never
\* removed: every movie with an entry before a step has one after it.
C13_CacheNeverCleared ==
    [][\A m \in DOMAIN trailerCache : m \in DOMAIN trailerCache']_vars

\* a key and a negative result are cached for the movies of two queries, and
\* Back has returned to the initial view, where neither movie is displayed
C13_Witness ==
    /\ lastEvent.type = "handleBack"
    /\ ~hasSearched
    /\ \E m \in DOMAIN trailerCache : trailerCache[m] = NullKey /\ m \notin Range(DisplayedCards)
    /\ \E m \in DOMAIN trailerCache : trailerCache[m] # NullKey /\ m \notin Range(DisplayedCards)

\* ---------------------------------------------------------------------------
\* The suggestion loader under every weather

\* fnIn is the weather that the weather service reports for the position
NextWeather ==
    \/ GeoSuccess
    \/ GeoError
    \/ WeatherResolved(fnIn[1], fnIn[2])
    \/ WeatherFailed
    \/ \E n \in -1..MaxTopRatedLen : TopRatedList(n)
    \/ \E b \in BOOLEAN : TopRatedDetail(b)
    \/ TopRatedFailed
    \/ \E i \in 1..Len(fetches) :
          \/ \E data \in Responses(fetches[i], 1, {MaxPageLen}) : FetchPage(i, data)
          \/ \E data \in Responses(fetches[i], 1, {MaxPageLen}) : SuggestDone(i, data)
          \/ SuggestFailed(i)
          \/ FallbackFailed(i)

InitWeather ==
    /\ InitApp
    /\ fnIn \in Codes \X Temps
    /\ fnOut = <<>>

SpecWeather == InitWeather /\ [][NextWeather]_vars

\* the genre table, row by row
TableGenre(c, t) ==
    CASE c \in 0..3 -> "adventure"
      [] c \in 45..48 -> "mystery"
      [] c \in 51..67 -> "romance"
      [] c \in 71..77 -> "fantasy"
      [] ~InCodeRange(c) /\ t >= 30 -> "action"
      [] ~InCodeRange(c) /\ t < 30 /\ t <= 5 -> "family"
      [] OTHER -> "drama"

\* the reason that goes with each genre
ReasonOf(g) ==
    CASE g = "fantasy" -> "it's snowing"
      [] g = "romance" -> "it's raining"
      [] g = "mystery" -> "it's foggy"
      [] g = "adventure" -> "it's clear and sunny"
      [] g = "action" -> "it's hot outside"
      [] g = "family" -> "it's freezing cold"
      [] g = "drama" -> "the weather is mild"

\* C14: when the weather request succeeds with (code, temp), the loader
\* starts the pagination loop with the genre of the table for (code, temp);
\* when that loop completes, the suggestion list is its result, it is shown
\* as the suggestions, and the reason is the weather reason of that genre.
C14_WeatherSuggestions ==
    /\ loader = "genre"
          => /\ Len(fetches) = 1
             /\ fetches[1].kind = "suggest"
             /\ fetches[1].q = <<TableGenre(fnIn[1], fnIn[2])>>
    /\ (lastEvent.type = "SuggestDone" /\ lastEvent.f.kind = "suggest")
          => /\ lastEvent.f.q = <<TableGenre(fnIn[1], fnIn[2])>>
             /\ suggested = lastEvent.f.allMovies
             /\ weatherReason = ReasonOf(TableGenre(fnIn[1], fnIn[2]))
             /\ suggested # <<>> => ShowSuggestions /\ DisplayedCards = suggested

\* code 0 at 25 degrees: the page of "adventure" is shown, clear-sky reason
C14_Witness ==
    /\ fnIn = <<0, 25>>
    /\ lastEvent.type = "SuggestDone"
    /\ lastEvent.f.q = <<"adventure">>
    /\ Len(suggested) = MaxPageLen
    /\ \A j \in 1..Len(suggested) : suggested[j].q = <<"adventure">>
    /\ ShowSuggestions
    /\ weatherReason = "it's clear and sunny"

\* the loader has taken a failure branch: every one of them sets this reason
FailureBranch == weatherReason = TopRatedReason

\* the list comes from the top-rated listing or from the keyword search
FromFallback(list) ==
    \A j \in 1..Len(list) : list[j].q \in {<<"top_rated">>, <<"movie">>}

\* C15 as stated: a loader that took a failure branch (position denied,
\* weather request failed, genre loop failed) ends with the suggestion list
\* set from the fallback.
C15_FallbackAlwaysSet ==
    (FailureBranch /\ loader \in {"done", "failed"})
        => loader = "done" /\ FromFallback(suggested)

\* C15, amended: every failure branch starts the same fallback, the top-rated
\* listing with an API key and the keyword search for "movie" without one; a
\* failure of the listing starts the keyword search; when the fallback
\* completes, the suggestion list is its result; when a request of the
\* keyword search fails as well, the loader ends with the list not set.
C15_FallbackUnlessAllFail ==
    /\ lastEvent.type \in {"GeoError", "WeatherFailed", "SuggestFailed"}
          => /\ FailureBranch
             /\ TMDB_API_KEY => loader = "toprated" /\ fetches = <<>>
                                /\ topRated.page = 1 /\ topRated.movies = <<>>
             /\ ~TMDB_API_KEY => loader = "fallback"
    /\ loader = "fallback"
          => /\ FailureBranch
             /\ Len(fetches) = 1
             /\ fetches[1].kind = "fallback"
             /\ fetches[1].q = <<"movie">>
    /\ loader = "toprated" => FailureBranch /\ TMDB_API_KEY /\ fetches = <<>>
    /\ lastEvent.type = "TopRatedFailed" => loader = "fallback"
    /\ (FailureBranch /\ loader = "done")
          => /\ FromFallback(suggested)
             /\ lastEvent.type = "SuggestDone"
                   => lastEvent.f.q = <<"movie">> /\ suggested = lastEvent.f.allMovies
             /\ lastEvent.type # "SuggestDone"
                   => /\ lastEvent.type \in {"TopRatedList", "TopRatedDetail"}
                      /\ \A j \in 1..Len(suggested) : suggested[j].q = <<"top_rated">>
    /\ loader = "failed"
          => FailureBranch /\ lastEvent.type = "FallbackFailed" /\ suggested = <<>>

\* the weather was not obtained or the genre loop failed, the listing failed
\* too, and the list was set from the keyword search
C15_Witness ==
    /\ TMDB_API_KEY
    /\ FailureBranch
    /\ loader = "done"
    /\ lastEvent.type = "SuggestDone"
    /\ lastEvent.f.kind = "fallback"
    /\ suggested # <<>>
    /\ ShowSuggestions

\* C16: the reason obtained for a weather is the reason of the genre obtained
\* for it, in all seven branches (the reasons of two genres differ, so each
\* reason goes with exactly one genre); suggestions that come from a
\* fallback are shown with the top-rated reason, and suggestions that come
\* from the loop of a genre with the reason of that genre.
C16_ReasonMatchesBranch ==
    /\ lastEvent.type = "WeatherResolved"
          => /\ fnOut[1] \in GENRES
             /\ weatherReason = ReasonOf(fnOut[1])
             /\ \A g \in GENRES : \A h \in GENRES :
                   ReasonOf(g) = ReasonOf(h) => g = h
             /\ TopRatedReason \notin {ReasonOf(g) : g \in GENRES}
    /\ (suggested # <<>> /\ FromFallback(suggested)) => weatherReason = TopRatedReason
    /\ \A g \in GENRES :
          (suggested # <<>> /\ suggested[1].q = <<g>>) => weatherReason = ReasonOf(g)

\* a snow code on a hot day: fantasy, and the snow reason
C16_Witness ==
    /\ lastEvent.type = "WeatherResolved"
    /\ fnIn[1] \in 71..77
    /\ fnIn[2] >= 30
    /\ fnOut = <<"fantasy">>
    /\ weatherReason = "it's snowing"

\* ---------------------------------------------------------------------------
\* Failures of network requests
\* ---------------------------------------------------------------------------

\* the steps in which a request rejects or its body does not parse
FailureEvents ==
    {"SearchFailed", "SuggestFailed", "FallbackFailed", "WeatherFailed",
     "TopRatedFailed", "LookupFailed"}

\* handleSearch and handleGenreSelect await their requests outside any try
\* block, so the rejection leaves the handler as an unhandled promise rejection;
\* the other requests are awaited inside a try block
UnhandledRejection == lastEvent.type = "SearchFailed"

\* the search form is rendered unconditionally: typing and submitting stay possible
Usable == (ENABLED setQuery(<<"a">>)) /\ (ENABLED handleSearch)

\* C17: no network failure is fatal: in every flow a rejected or unparsable
\* response never propagates as an unhandled error, and the app stays usable
\* (a further search is possible).
C17_NoFailureUnhandled ==
    lastEvent.type \in FailureEvents => ~UnhandledRejection /\ Usable

\* C18: when a request of an explicit search fails, the UI ends in the
\* "no results" state for that query: results empty, searching flag false,
\* no-results message shown.
C18_FailedSearchShowsNoResults ==
    (lastEvent.type = "SearchFailed" /\ fetches = <<>>)
        => Len(movies) = 0 /\ ~isSearching /\ ShowNoResults

\* ---------------------------------------------------------------------------
\* The Trailer Resolver as a function of the two responses
\* ---------------------------------------------------------------------------

MaxVideos == 3
VideoTypes == {"Trailer", "Teaser", "Clip"}
VideoSites == {"YouTube", "Vimeo"}

\* the key of the video at position j of a videos response
KeyAt(j) ==
    CASE j = 1 -> "k1" [] j = 2 -> "k2" [] j = 3 -> "k3" [] j = 4 -> "k4" [] OTHER -> "k5"

\* a response of the TMDB API: rejected or unparsable (ok = FALSE), parsed
\* without a results field (has = FALSE), or parsed with a results array
Rejected == [ok |-> FALSE, has |-> FALSE, results |-> <<>>]
NoResultsField == [ok |-> TRUE, has |-> FALSE, results |-> <<>>]
Parsed(results) == [ok |-> TRUE, has |-> TRUE, results |-> results]

\* responses of /search/movie: the ids of the candidates, in order
SearchResponses ==
    {Rejected, NoResultsField}
        \cup {Parsed(r) : r \in {<<>>, <<1>>, <<2>>, <<1, 2>>, <<2, 1>>}}

\* responses of /movie/{id}/videos, for candidate 1 and for candidate 2
VideosResponses ==
    {Rejected, NoResultsField}
        \cup UNION {{Parsed([j \in 1..k |-> Video(ts[j][1], ts[j][2], KeyAt(j))]) :
                        ts \in [1..k -> VideoTypes \X VideoSites]} : k \in 0..MaxVideos}
OtherVideosResponses ==
    {Rejected, Parsed(<<Video("Trailer", "YouTube", "other")>>)}

\* fetchTrailerFromTMDB(title, year), given the response of the search and the
\* responses of the videos endpoint by TMDB id
fetchTrailerFromTMDB(searchData, videosData) ==
    IF ~TMDB_API_KEY THEN NullKey
    ELSE IF ~searchData.ok THEN NullKey
    ELSE IF ~searchData.has \/ Len(searchData.results) = 0 THEN NullKey
    ELSE LET tmdbId == searchData.results[1]
         IN IF ~videosData[tmdbId].ok THEN NullKey
            ELSE IF ~videosData[tmdbId].has \/ Len(videosData[tmdbId].results) = 0
            THEN NullKey
            ELSE SelectTrailerKey(videosData[tmdbId].results)

InitResolver ==
    /\ InitApp
    /\ \E s \in SearchResponses, v1 \in VideosResponses, v2 \in OtherVideosResponses :
          fnIn = <<s, <<v1, v2>>>>
    /\ fnOut = <<>>

ApplyResolver ==
    /\ fnOut = <<>>
    /\ fnOut' = <<fetchTrailerFromTMDB(fnIn[1], fnIn[2])>>
    /\ lastEvent' = Event("fetchTrailerFromTMDB")
    /\ UNCHANGED <<searchVars, loaderVars, fetches, previewVars, pointer, fnIn>>

SpecResolver == InitResolver /\ [][ApplyResolver]_vars

\* the positions of the videos of vs of the given types that are on YouTube
YouTubeAt(vs, types) ==
    {j \in 1..Len(vs) : vs[j].site = "YouTube" /\ vs[j].type \in types}
Lowest(S) == CHOOSE j \in S : \A k \in S : j <= k

\* C19: the resolver returns the key of the first "Trailer" on YouTube; else
\* of the first "Teaser" on YouTube; else of the first entry of any type on
\* YouTube; otherwise none. None when the search has no candidates or the video
\* list is empty. Only the videos of the first search candidate are used.
C19_TrailerPreference ==
    (fnOut # <<>> /\ TMDB_API_KEY /\ fnIn[1].ok)
        => IF fnIn[1].results = <<>>
           THEN fnOut[1] = NullKey
           ELSE LET first == fnIn[2][fnIn[1].results[1]]
                    vs == first.results
                    T == YouTubeAt(vs, {"Trailer"})
                    Z == YouTubeAt(vs, {"Teaser"})
                    Y == YouTubeAt(vs, VideoTypes)
                IN first.ok =>
                      fnOut[1] = IF T # {} THEN vs[Lowest(T)].key
                                 ELSE IF Z # {} THEN vs[Lowest(Z)].key
                                 ELSE IF Y # {} THEN vs[Lowest(Y)].key
                                 ELSE NullKey

\* the first candidate has a teaser, then a trailer not on YouTube, then a
\* trailer on YouTube; the second candidate has a trailer on YouTube
C19_Witness ==
    /\ TMDB_API_KEY
    /\ fnIn[1] = Parsed(<<1, 2>>)
    /\ fnIn[2][1] = Parsed(<<Video("Teaser", "YouTube", "k1"),
                             Video("Trailer", "Vimeo", "k2"),
                             Video("Trailer", "YouTube", "k3")>>)
    /\ fnIn[2][2] = Parsed(<<Video("Trailer", "YouTube", "other")>>)
    /\ fnOut = <<"k3">>

\* ---------------------------------------------------------------------------
\* The trailer container of the preview
\* ---------------------------------------------------------------------------

\* {trailer.loading && <div className="trailer-loading">}
ShowTrailerLoading == hoveredMovie # NoMovie /\ trailer.loading
\* {!trailer.loading && trailer.youtubeKey && <iframe>}
ShowTrailerFrame ==
    hoveredMovie # NoMovie /\ ~trailer.loading /\ trailer.youtubeKey # NullKey
\* {!trailer.loading && !trailer.youtubeKey && <>poster, trailer-overlay</>}:
\* the overlay opens the YouTube search for the title
ShowYouTubeSearch ==
    hoveredMovie # NoMovie /\ ~trailer.loading /\ trailer.youtubeKey = NullKey
\* no element of the preview reads trailer.error
ShowTrailerError == FALSE

FetcherDepth == 2

NextFetcher ==
    \/ SearchesInFlight = 0 /\ handleGenreSelect("action")
    \/ GeoSuccess
    \/ GeoError
    \/ WeatherResolved(0, 25)
    \/ \E i \in 1..Len(fetches) :
          \/ \E data \in Responses(fetches[i], FetcherDepth, {MaxPageLen}) : FetchPage(i, data)
          \/ \E data \in Responses(fetches[i], FetcherDepth, {MaxPageLen}) : SearchDone(i, data)
          \/ \E data \in Responses(fetches[i], FetcherDepth, {MaxPageLen}) : SuggestDone(i, data)
          \/ SearchFailed(i)
          \/ SuggestFailed(i)
          \/ FallbackFailed(i)

SpecFetcher == InitNoKey /\ [][NextFetcher]_vars

FetcherFailures == {"SearchFailed", "SuggestFailed", "FallbackFailed"}
FetcherReturns == {"SearchDone", "SuggestDone"}

\* C21: the Paginated Fetcher returns the empty sequence as a normal result
\* when the first page has no results field; when a request or a parse fails it
\* signals failure and hands no partial results to its caller; the caller is
\* left in a different state by the two outcomes.
C21_EmptyIsNotFailure ==
    /\ []((lastEvent.type \in FetcherReturns /\ lastEvent.f.log = <<Absent>>)
            => /\ lastEvent.f.allMovies = <<>>
               /\ lastEvent.f.kind = "genre" => movies = <<>> /\ ~isSearching
               /\ lastEvent.f.kind \in {"suggest", "fallback"}
                     => suggested = <<>> /\ loader = "done")
    /\ [][lastEvent'.type \in FetcherFailures
            => /\ movies' = movies
               /\ suggested' = suggested]_vars
    /\ [](lastEvent.type = "SearchFailed" => isSearching)
    /\ [](lastEvent.type \in {"SuggestFailed", "FallbackFailed"} => loader # "done")

\* the second page of the genre selection fails after the first page was read
C21_Witness ==
    /\ lastEvent.type = "SearchFailed"
    /\ lastEvent.f.kind = "genre"
    /\ lastEvent.f.page = 2
    /\ Len(lastEvent.f.allMovies) = MaxPageLen
    /\ movies = <<>>
    /\ isSearching

\* C22: selecting a genre filter G has the same effect on the displayed
\* results, the searching flag, the searched query and the history stack as
\* submitting a search whose query is G, and it also resets the free-text query
\* of the search field.
C22_GenreSelectIsSearch ==
    [][(lastEvent'.type = "handleGenreSelect" /\ selectedGenre' # "")
          => /\ movies' = <<>>
             /\ isSearching'
             /\ hasSearched'
             /\ searchedQuery' = Word(selectedGenre')
             /\ searchHistory' =
                   IF hasSearched /\ searchedQuery # <<>>
                   THEN Append(searchHistory, [query |-> searchedQuery, movies |-> movies])
                   ELSE searchHistory
             /\ query' = <<>>]_vars

\* ---------------------------------------------------------------------------
\* The position of the preview panel as a function of the geometry
\* ---------------------------------------------------------------------------

\* widths of the window in pixels: MinViewport..MaxViewport and a wide one
MinViewport == 340
MaxViewport == 400
WideViewport == 1024

\* all lengths in half pixels, as in PositionLeft
CardLefts == {20 * k : k \in -10..50}
CardWidths == {0, 301, 600}
ScrollLefts == {0, 200}
Viewports == {2 * w : w \in MinViewport..MaxViewport} \cup {2 * WideViewport}

PositionInputs ==
    [left : CardLefts, top : {200}, width : CardWidths, scrollLeft : ScrollLefts,
     scrollTop : {0}, innerWidth : Viewports]

InitPosition ==
    /\ InitApp
    /\ \E g \in PositionInputs : fnIn = <<g>>
    /\ fnOut = <<>>

\* the callback of the show timer up to setPreviewPosition
ApplyPosition ==
    /\ fnOut = <<>>
    /\ fnOut' = <<PositionLeft(fnIn[1]), PositionTop(fnIn[1])>>
    /\ lastEvent' = Event("setPreviewPosition")
    /\ UNCHANGED <<searchVars, loaderVars, fetches, previewVars, pointer, fnIn>>

SpecPosition == InitPosition /\ [][ApplyPosition]_vars

\* 350 px and 10 px in half pixels, written out
PanelHalfPx == 2 * 350
MarginHalfPx == 2 * 10

C24_ModeToggleOnlySetsMode ==
    /\ [](previewMode \in {"expand", "modal"})
    /\ [](lastEvent.type = "mount" => previewMode = "expand")
    /\ [](\A mode \in {"expand", "modal"} :
             ENABLED (setPreviewMode(mode) /\ previewMode' = mode))
    /\ [][lastEvent'.type = "setPreviewMode"
            => UNCHANGED <<hoveredMovie, previewPosition, timers, hoverTimeoutRef,
                           closeTimeoutRef, movies, suggested, hasSearched, isSearching,
                           query, searchedQuery, selectedGenre, searchHistory, trailer,
                           trailerCache, lookups, fetches>>]_vars

\* the mode is switched to modal while a preview with a resolved trailer state
\* is visible and a close timer is pending
C24_Witness ==
    /\ lastEvent.type = "setPreviewMode"
    /\ previewMode = "modal"
    /\ hoveredMovie # NoMovie
    /\ \E t \in timers : t.kind = "close"
    /\ hoveredMovie \in DOMAIN trailerCache
    /\ Len(movies) > 0

\* ---------------------------------------------------------------------------
\* Overlapping searches
\* ---------------------------------------------------------------------------

\* searches awaiting a response at the same time, and submissions in a run
MaxOverlap == 2
MaxSubmits == 3

\* nothing stops a submit while an earlier search awaits its response: the
\* form stays enabled and handleSearch keeps no token of the running search
NextOverlap ==
    \/ \E text \in {<<"a">>, <<"b">>} : setQuery(text)
    \/ /\ trim(query) # <<>> =>
             /\ SearchesInFlight < MaxOverlap
             /\ Len(searchHistory) + 1 < MaxSubmits
       /\ handleSearch
    \/ \E i \in 1..Len(fetches) :
          \/ \E data \in Responses(fetches[i], 1, {1}) : FetchPage(i, data)
          \/ \E data \in Responses(fetches[i], 1, {1}) : SearchDone(i, data)

SpecOverlap == InitNoKey /\ [][NextOverlap]_vars

\* C25: when search B is submitted while search A is in flight, A's late result
\* is discarded: the displayed results are never set to the result of a search
\* other than the one last submitted, and when no search is in flight any more
\* the displayed results are those of the last submitted query.
C25_LateResultDiscarded ==
    /\ [][(lastEvent'.type = "SearchDone" /\ lastEvent'.f.q # searchedQuery)
             => movies' = movies]_vars
    /\ []((hasSearched /\ SearchesInFlight = 0)
             => \A j \in 1..Len(movies) : movies[j].q = searchedQuery)

\* C26: every entry of the history stack pairs a query with the results that
\* were fetched for that query: every movie of the entry was returned for the
\* entry's query, and no entry is empty because its search was still in flight
\* when the next one was submitted.
C26_HistoryEntriesMatch ==
    /\ [](\A k \in 1..Len(searchHistory) :
             \A j \in 1..Len(searchHistory[k].movies) :
                 searchHistory[k].movies[j].q = searchHistory[k].query)
    /\ [][(lastEvent'.type = "handleSearch" /\ Len(searchHistory') > Len(searchHistory))
             => \A i \in 1..Len(fetches) : fetches[i].q # searchedQuery]_vars

\* C27: submitting a non-empty query pushes exactly one entry {previously
\* searched query, previously displayed results} if and only if a previous
\* search was displayed, and nothing otherwise; it clears the results and sets
\* the searching flag before the first page is requested; on completion the
\* results are the fetched sequence and the searching flag is cleared.
C27_SubmitPushesPrevious ==
    /\ [][(lastEvent'.type = "handleSearch" /\ trim(query) # <<>>)
             => /\ IF hasSearched /\ searchedQuery # <<>>
                   THEN /\ Len(searchHistory') = Len(searchHistory) + 1
                        /\ SubSeq(searchHistory', 1, Len(searchHistory)) = searchHistory
                        /\ searchHistory'[Len(searchHistory')].query = searchedQuery
                        /\ searchHistory'[Len(searchHistory')].movies = movies
                   ELSE searchHistory' = searchHistory
                /\ movies' = <<>>
                /\ isSearching'
                /\ Len(fetches') = Len(fetches) + 1
                /\ LET f == fetches'[Len(fetches')] IN
                      f.q = trim(query) /\ f.page = 1 /\ f.issued = 1 /\ f.allMovies = <<>>]_vars
    /\ [](hasSearched => searchedQuery # <<>>)
    /\ [][lastEvent'.type = "SearchDone"
             => /\ movies' = ConcatPages(lastEvent'.f.log, Len(lastEvent'.f.log))
                /\ ~isSearching'
                /\ searchHistory' = searchHistory]_vars

\* a second search is submitted while the results of the first are displayed
C27_Witness ==
    /\ lastEvent.type = "handleSearch"
    /\ Len(searchHistory) = 1
    /\ searchHistory[1].query = <<"a">>
    /\ Len(searchHistory[1].movies) = MaxPageLen
    /\ searchedQuery = <<"b">>
    /\ movies = <<>>
    /\ isSearching
    /\ Len(fetches) = 1

LookupEvents == {"LookupSearched", "LookupVideos", "LookupFailed"}

\* C28: the trailer state belongs to the hovered movie: it is reset when the
\* hover target changes or the preview closes, and the response of a lookup for
\* a movie that is no longer hovered never changes the trailer state of the
\* current target or of the closed preview.
C28_TrailerOfHoveredMovie ==
    /\ [][hoveredMovie' # hoveredMovie
             => \/ trailer' = NoTrailer /\ hoveredMovie' = NoMovie
                \/ trailer' = [youtubeKey |-> NullKey, loading |-> TRUE, error |-> FALSE]
                \/ /\ hoveredMovie' \in DOMAIN trailerCache'
                   /\ trailer'.youtubeKey = trailerCache'[hoveredMovie']
                   /\ ~trailer'.loading]_vars
    /\ [][(lastEvent'.type \in LookupEvents /\ lastEvent'.m # hoveredMovie)
             => trailer' = trailer]_vars

ShowTimers == {t \in timers : t.kind = "show"}

\* C29: at most one movie is pending (show timer armed) or visible at a time:
\* no state has the preview of one movie visible while the show timer of
\* another movie is pending, and no state has two show timers pending.
C29_OneMoviePendingOrVisible ==
    /\ Cardinality(ShowTimers) <= 1
    /\ \A t \in ShowTimers : hoveredMovie \in {NoMovie, t.m}

CloseTimers == {t \in timers : t.kind = "close"}

\* C30: in expand mode with a preview visible, a hover-leave from the card or
\* the panel arms a 300 ms close timer; when the pointer enters the panel or a
\* card before it fires, the timer is cancelled and the preview stays visible;
\* otherwise, when the timer fires, the preview closes.
C30_CloseTimerGracePeriod ==
    /\ [][(lastEvent'.type = "handleMouseLeave" /\ previewMode = "expand"
              /\ hoveredMovie # NoMovie)
             => /\ \E t \in timers' \ timers :
                      /\ t.kind = "close"
                      /\ t.delay = 300
                      /\ closeTimeoutRef' = t.id
                /\ hoveredMovie' = hoveredMovie]_vars
    /\ [][(lastEvent'.type \in {"handlePreviewEnter", "handleMouseEnter"}
              /\ hoveredMovie # NoMovie)
             => /\ \A t \in timers' : t.id # closeTimeoutRef
                /\ closeTimeoutRef' = 0
                /\ hoveredMovie' = hoveredMovie]_vars
    /\ [][lastEvent'.type = "CloseTimerFires" => hoveredMovie' = NoMovie]_vars
    /\ []((hoveredMovie # NoMovie /\ previewMode = "expand" /\ closeTimeoutRef # 0
              /\ \E t \in CloseTimers : t.id = closeTimeoutRef)
             => \E t \in CloseTimers : ENABLED CloseTimerFires(t))

\* the pointer has come back onto the panel within the grace period: the
\* preview is visible and no close timer is left
C30_Witness ==
    /\ lastEvent.type = "handlePreviewEnter"
    /\ previewMode = "expand"
    /\ hoveredMovie # NoMovie
    /\ CloseTimers = {}
    /\ closeTimeoutRef = 0

\* C31: an explicit close (Escape, backdrop click, close control) cancels every
\* outstanding show and close timer: no timer is left after it, so the preview
\* stays closed until a show timer armed by a later hover-enter elapses, and a
\* timer armed before the close neither reopens the preview nor closes a
\* later one.
C31_ExplicitCloseCancelsTimers ==
    /\ [][lastEvent'.type \in CloseActions
             => /\ hoveredMovie' = NoMovie
                /\ timers' = {}]_vars
    /\ [][(hoveredMovie = NoMovie /\ hoveredMovie' # NoMovie)
             => /\ lastEvent'.type = "ShowTimerFires"
                /\ \E t \in timers : /\ t.kind = "show"
                                     /\ t.m = hoveredMovie'
                                     /\ t.id = hoverTimeoutRef]_vars

\* Escape is pressed within the grace period of a close timer: the reference
\* still names the timer, which is gone
C31_Witness ==
    /\ lastEvent.type = "Escape"
    /\ lastEvent.m # NoMovie
    /\ hoveredMovie = NoMovie
    /\ closeTimeoutRef # 0
    /\ timers = {}

\* C32: within one invocation of the loop the page requests go out one at a
\* time, numbered 1, 2, 3, ... without gaps or repeats: the request of page
\* n + 1 is sent only after the response of page n has arrived with a results
\* field.
C32_PagesOneAtATime ==
    /\ [](\A i \in 1..Len(fetches) :
             LET f == fetches[i] IN
             /\ f.issued = Len(f.log) + 1
             /\ f.page = f.issued
             /\ \A j \in 1..Len(f.log) :
                   /\ f.log[j].has
                   /\ \A h \in 1..Len(f.log[j].Search) : f.log[j].Search[h].p = j)
    /\ [][lastEvent'.type = "FetchPage"
             => \E i \in 1..Len(fetches) :
                   /\ Len(fetches') = Len(fetches)
                   /\ \A k \in 1..Len(fetches) : k # i => fetches'[k] = fetches[k]
                   /\ fetches'[i].issued = fetches[i].issued + 1
                   /\ fetches'[i].page = fetches[i].page + 1
                   /\ fetches'[i].log[Len(fetches'[i].log)].has]_vars
    /\ [][lastEvent'.type \in {"handleSearch", "handleGenreSelect", "WeatherResolved", "GeoError"}
             => \A i \in (Len(fetches) + 1)..Len(fetches') :
                   fetches'[i].issued = 1 /\ fetches'[i].page = 1 /\ fetches'[i].log = <<>>]_vars

\* the request of page 3 is out after two pages with results
C32_Witness ==
    \E i \in 1..Len(fetches) :
        /\ fetches[i].issued = 3
        /\ fetches[i].page = 3
        /\ Len(fetches[i].log) = 2
        /\ Len(fetches[i].allMovies) = 2 * MaxPageLen

\* ---------------------------------------------------------------------------
\* Termination of the loop
\* ---------------------------------------------------------------------------

\* a response arrives for a pending request
FetchResponse ==
    \E i \in 1..Len(fetches) :
        \E data \in Responses(fetches[i], MaxPages + 1, {0, MaxPageLen}) :
            FetchPage(i, data) \/ SearchDone(i, data) \/ SuggestDone(i, data)

\* every request sent is answered in the end
SpecFetchLive == InitNoKey /\ [][NextFetch]_vars /\ WF_vars(FetchResponse)

\* C33: every invocation of the loop ends after at most 10 responses whatever
\* the provider answers, provided every request is answered; so every search
\* whose requests all succeed reaches a state with the searching flag false
\* and its results displayed.
C33_LoopTerminates ==
    /\ [](\A i \in 1..Len(fetches) : Len(fetches[i].log) < 10)
    /\ []((lastEvent.type \in {"SearchDone", "SuggestDone"}) => Len(lastEvent.f.log) <= 10)
    /\ (fetches # <<>>) ~> (fetches = <<>>)
    /\ isSearching ~> (/\ ~isSearching
                       /\ lastEvent.type = "SearchDone"
                       /\ lastEvent.f.q = searchedQuery
                       /\ movies = lastEvent.f.allMovies
                       /\ DisplayedCards = movies)

\* a search stopped by the ceiling: ten responses, all with results
C33_Witness ==
    /\ lastEvent.type = "SearchDone"
    /\ Len(lastEvent.f.log) = 10
    /\ ~isSearching
    /\ fetches = <<>>
    /\ Len(movies) = 10 * MaxPageLen
    /\ DisplayedCards = movies

\* ---------------------------------------------------------------------------
\* The Suggestion Loader next to the other operations
\* ---------------------------------------------------------------------------

\* every branch of the loader, with searches, genre selections, Back and the
\* hover preview in between; no trailer lookup is sent (a preview opens for
\* movies whose trailer needs none)

NextLoader ==
    \/ GeoSuccess
    \/ GeoError
    \/ WeatherResolved(0, 25)
    \/ WeatherFailed
    \/ \E n \in -1..1 : TopRatedList(n)
    \/ \E b \in BOOLEAN : TopRatedDetail(b)
    \/ TopRatedFailed
    \/ \E i \in 1..Len(fetches) :
          \/ \E data \in Responses(fetches[i], 1, {1}) : FetchPage(i, data)
          \/ \E data \in Responses(fetches[i], 1, {1}) : SuggestDone(i, data)
          \/ \E data \in Responses(fetches[i], 1, {1}) : SearchDone(i, data)
          \/ SuggestFailed(i)
          \/ FallbackFailed(i)
    \/ setQuery(<<"a">>)
    \/ SearchesInFlight = 0 /\ WithinBounds(0) /\ handleSearch
    \/ \E g \in UserGenres : (g # "" => SearchesInFlight = 0) /\ handleGenreSelect(g)
    \/ handleBack
    \/ \E m \in Range(DisplayedCards) : handleMouseEnter(m)
    \/ handleMouseLeave
    \/ handleInstantClose("Escape")
    \/ \E t \in timers : \E g \in Geometries :
          /\ ~StartsLookup(t.m)
          /\ ShowTimerFires(t, g)
    \/ \E t \in timers : CloseTimerFires(t)

SpecLoader == Init /\ [][NextLoader]_vars

LoaderEvents ==
    {"GeoSuccess", "GeoError", "WeatherResolved", "WeatherFailed", "TopRatedList",
     "TopRatedDetail", "TopRatedFailed", "SuggestDone", "SuggestFailed", "FallbackFailed"}
LoaderEnded == loader \in {"done", "failed"}

\* C34: the Suggestion Loader runs once and takes one terminal branch with no
\* retry: the suggestion list is written at most once, and no search, genre
\* selection, Back or preview operation modifies the suggestion list or the
\* reason string.
C34_LoaderWritesOnce ==
    /\ [][(suggested' # suggested \/ weatherReason' # weatherReason \/ loader' # loader)
             => lastEvent'.type \in LoaderEvents /\ ~LoaderEnded]_vars
    /\ [][lastEvent'.type \in LoaderEvents => ~LoaderEnded]_vars
    /\ [][suggested' # suggested => suggested = <<>> /\ loader' = "done"]_vars
    /\ [][LoaderEnded
             => /\ loader' = loader
                /\ suggested' = suggested
                /\ weatherReason' = weatherReason
                /\ \A i \in 1..Len(fetches') : fetches'[i].kind \in {"search", "genre"}
                /\ topRated' = topRated]_vars
    /\ [](loader = "locating" => suggested = <<>> /\ weatherReason = "")

\* after the loader has finished with a list, Back returns from a search to
\* the initial view with a show timer pending: the list is displayed again
C34_Witness ==
    /\ loader = "done"
    /\ suggested # <<>>
    /\ lastEvent.type = "handleBack"
    /\ ~hasSearched
    /\ DisplayedCards = suggested
    /\ timers # {}

\* C35: the searching flag is true exactly while a search or genre fetch is in
\* flight; it is never false while one is pending, so the "no results" message
\* is never shown for a query whose fetch has not finished.
C35_SearchingIffInFlight ==
    /\ isSearching <=> SearchesInFlight > 0
    /\ ShowNoResults => \A i \in 1..Len(fetches) : fetches[i].q # searchedQuery

\* C36: whenever search results are displayed (the result list is non-empty),
\* hasSearched is true and the Back control is available: a search or genre
\* result that arrives after Back with an empty history, or after the "All
\* Genres" reset, does not land in the suggestions view.
C36_ResultsImplyHasSearched ==
    Len(movies) > 0 => hasSearched /\ ShowBack

\* C37: whenever the app is in the initial suggestions view (hasSearched
\* false) the history stack is empty, so a later search followed by Back cannot
\* restore an entry left from before the view was reset.
C37_InitialViewHasNoHistory ==
    ~hasSearched => searchHistory = <<>>

\* ---------------------------------------------------------------------------
\* Resets of the view with a history
\* ---------------------------------------------------------------------------

MaxResetHistory == 1

NextReset ==
    \/ setQuery(<<"a">>)
    \/ WithinBounds(MaxResetHistory) /\ handleSearch
    \/ \E g \in UserGenres :
          /\ g # "" => SearchesInFlight < MaxInFlight
          /\ handleGenreSelect(g)
    \/ handleBack
    \/ \E i \in 1..Len(fetches) :
          \/ \E data \in Responses(fetches[i], 1, {1}) : FetchPage(i, data)
          \/ \E data \in Responses(fetches[i], 1, {1}) : SearchDone(i, data)

SpecReset == InitNoKey /\ [][NextReset]_vars

\* C38: a movie that is pending or visible in the preview is one of the cards
\* displayed: replacing the displayed list (search submit, genre selection,
\* Back) leaves no preview open and no show timer armed for a movie that is no
\* longer displayed.
C38_PreviewOfDisplayedCard ==
    /\ hoveredMovie # NoMovie => hoveredMovie \in Range(DisplayedCards)
    /\ \A t \in timers : t.kind = "show" => t.m \in Range(DisplayedCards)

\* C39: whatever the sequence of card-enter, card-leave, panel-enter,
\* panel-leave and explicit-close events, at most one show timer and at most
\* one close timer are live at any time, and a show timer and a close timer
\* are never live together.
C39_AtMostOneTimer ==
    /\ Cardinality(ShowTimers) <= 1
    /\ Cardinality(CloseTimers) <= 1
    /\ ShowTimers = {} \/ CloseTimers = {}

\* the pointer has left the panel of an open preview and come back to a card
\* before the 300ms of the close ran out: the pending close was replaced by
\* the card's show timer
C39_Witness ==
    /\ lastEvent.type = "handleMouseEnter"
    /\ hoveredMovie # NoMovie
    /\ closeTimeoutRef = 0
    /\ Cardinality(timers) = 1
    /\ \E t \in timers : t.kind = "show" /\ t.id = hoverTimeoutRef /\ t.m = lastEvent.m

\* the trailer state as every write of the effect leaves it
TrailerWellFormed ==
    /\ ~(trailer.loading /\ trailer.error)
    /\ trailer.youtubeKey # NullKey => ~trailer.loading /\ ~trailer.error
    /\ (~trailer.loading /\ hoveredMovie # NoMovie)
          => (trailer.error <=> trailer.youtubeKey = NullKey)

\* C40: in every reachable state the trailer state is well-formed: loading
\* and error are never both true, a video key that is not null implies
\* neither loading nor error, and when loading is false with a movie hovered,
\* error is true exactly when the key is null; a cache hit sets the final
\* state directly, without passing through loading and without a lookup.
C40_TrailerWellFormed ==
    /\ []TrailerWellFormed
    /\ [][(/\ lastEvent'.type = "ShowTimerFires"
           /\ lastEvent'.m # hoveredMovie
           /\ lastEvent'.m \in DOMAIN trailerCache)
             => /\ trailer' = [youtubeKey |-> trailerCache[lastEvent'.m],
                               loading |-> FALSE,
                               error |-> trailerCache[lastEvent'.m] = NullKey]
                /\ lookups' = lookups
                /\ trailerCache' = trailerCache]_vars

\* the preview of a movie opened with its key taken from the cache, while the
\* cache also holds the negative result of another movie
C40_Witness ==
    /\ lastEvent.type = "ShowTimerFires"
    /\ hoveredMovie = lastEvent.m
    /\ hoveredMovie \in DOMAIN trailerCache
    /\ trailerCache[hoveredMovie] # NullKey
    /\ trailer = [youtubeKey |-> trailerCache[hoveredMovie], loading |-> FALSE,
                  error |-> FALSE]
    /\ lookups = <<>>
    /\ \E m \in DOMAIN trailerCache : trailerCache[m] = NullKey
====
